---- MODULE Spec2Model ----
(***************************************************************************)
(* Run supervisor of the options-trading application.                      *)
(*                                                                         *)
(* The store is the PostgreSQL tables runs and run_events.  It is written  *)
(* by the HTTP layer (app/routers/runs.py), by RunnerService instances     *)
(* (app/runner_service.py) and by the workload's heartbeat                 *)
(* (strategies/runner.py).  Every store call opens its own connection and  *)
(* commits on its own, so one store call is one atomic step and the other  *)
(* actors interleave between two calls of the same handler.                *)
(***************************************************************************)
EXTENDS Integers, Sequences, FiniteSets, TLC

\* ------------------------------------------------------------------ bounds
\* Number of run rows the submitter inserts (ids 1..MaxRuns, SERIAL) while one
\* RunnerService instance at a time serves the store, and the number it
\* inserts while two instances serve it side by side.
MaxRuns == 2
MaxRacedRuns == 1

\* Strategy ids a run can name, RunnerService instances on the host, and the
\* return codes of a workload that ends on its own (strategies/runner.py main).
StrategyIds == {1}
Supervisors == {1, 2}
ExitCodes == {0, 1}

RunIds == 1..MaxRuns

\* Number of asyncio tasks created, and of lines the registry holds in the
\* log of one sid.
MaxTasks == 3
MaxLogLines == 1
MaxRequests == 3
MaxCalls == 3
MaxDeployments == 3

\* Strategy ids the registry is asked about and task_info dicts given to it.
Sids == {1, 2}
TaskInfos == {"info_a", "info_b"}

\* Broker accounts a deployment may select.
Accounts == {"DU1", "DU2"}

\* run() stops every tracked run with stop_strategy(run_id, grace_period=5).
grace_period == 5

\* One iteration of the workload's main loop ends with time.sleep(1).
loop_iteration == 1

\* ------------------------------------------------------------- SQL values
\* A nullable column holds NULL or one value.
NULL == << >>
Some(v) == <<v>>

\* RunStatus
RunStatus == {"pending", "starting", "running", "stopping", "stopped", "error", "dead"}
Terminal == {"stopped", "error", "dead"}
Active == {"starting", "running", "stopping"}

VARIABLES
    runs,            \* table runs: id -> row
    run_events,      \* table run_events: run_id -> rows in insertion order
    os,              \* the host's process table: pid -> process
    sup,             \* per RunnerService instance: loop position and its dicts
    stop_reads,      \* stop_run requests between their SELECT and their UPDATE
    delete_reads,    \* delete_run requests between their SELECT and their DELETEs
    hist,            \* history of calls and outcomes, read only by the properties
    runs_id_seq,     \* the sequence behind runs.id (SERIAL): the last id it gave
    task_registry,   \* app/runner.py: the TaskRegistry object task_registry
    asyncio_tasks,   \* the asyncio tasks created so far: task -> its state
    lock,            \* TaskRegistry._lock: NULL when free, else the holder
    coroutines,      \* run_strategy coroutines: task -> sid and place
    requests,        \* requests of the strategies router: id -> handler state
    ib_manager,      \* IBManager.instance(): _connected and where ib is connected to
    connection_manager,  \* ConnectionManager: _started, _mode
    ensure_calls,    \* the ensure_connection calls made so far and what they gave
    deployments,     \* table deploymenthistory: id -> row
    deploy_reply     \* what the last deploy_strategy_api call answered

vars == <<runs, run_events, os, sup, stop_reads, delete_reads, hist, runs_id_seq, task_registry,
          asyncio_tasks, lock, coroutines, requests, ib_manager, connection_manager,
          ensure_calls, deployments, deploy_reply>>

\* The embedded backend's variables, which no store call and no RunnerService
\* touches.
registry == <<task_registry, asyncio_tasks, lock, coroutines, requests, ib_manager,
              connection_manager, ensure_calls, deployments, deploy_reply>>

\* The deployment history and the reply of the last deployment request.
deployment == <<deployments, deploy_reply>>

\* The managed IB connection and its manager.
connection == <<ib_manager, connection_manager, ensure_calls>>

\* The callers of the registry: the lock they contend for, the run_strategy
\* coroutines and the router's requests.
callers == <<lock, coroutines, requests>>

\* The pid the host gives the process that supervisor s starts for run r.
\* A supervisor starts at most one process per run row it claimed, so the
\* pair names the process; 0 is no pid.
Pid(s, r) == (s - 1) * MaxRuns + r
Pids == {Pid(s, r) : s \in Supervisors, r \in RunIds}

\* -------------------------------------------------------------- the store
\* A row of runs as INSERTed by create_run: the columns the statement does not
\* name take their defaults (status is given as 'pending', the rest are NULL).
NewRun(strategy_id) ==
    [strategy_id |-> strategy_id, status |-> "pending", pid |-> NULL, host |-> NULL,
     started_at |-> NULL, stopped_at |-> NULL, last_heartbeat |-> NULL,
     exit_code |-> NULL]

\* update_run_status(run_id, status, **kwargs): UPDATE runs SET <every kwarg
\* that is not None>, status WHERE id = run_id.  No condition on the row's
\* current status; a missing row is left missing.
update_run_status(rs, run_id, status, kwargs) ==
    IF run_id \notin DOMAIN rs THEN rs
    ELSE [rs EXCEPT ![run_id] =
            [f \in DOMAIN @ |->
                IF f = "status" THEN status
                ELSE IF f \in DOMAIN kwargs /\ kwargs[f] # NULL THEN kwargs[f]
                ELSE @[f]]]

\* add_event(run_id, level, message): INSERT INTO run_events.
add_event(ev, run_id, level, message) ==
    [ev EXCEPT ![run_id] = Append(@, [level |-> level, message |-> message])]

\* The INSERT of add_event is written with qmark placeholders and runs on its
\* own connection: a store that rejects the statement makes the call raise,
\* one that takes it appends the row.  Each call has one of the two outcomes.
AddEventOutcomes == {"inserted", "raised"}

\* get_pending_runs: SELECT * FROM runs WHERE status = 'pending', as the list
\* of the ids of the rows, in id order.
RECURSIVE SortedSeq(_)
SortedSeq(S) ==
    IF S = {} THEN << >>
    ELSE LET m == CHOOSE x \in S : \A y \in S : x <= y
         IN <<m>> \o SortedSeq(S \ {m})

get_pending_runs(rs) == SortedSeq({r \in DOMAIN rs : rs[r].status = "pending"})

\* claim_run's statement: UPDATE runs SET status = 'starting' WHERE id = run_id
\* AND status = 'pending'; its rowcount, and the table after it.
\* (The same statement without its condition on status.)
claim_rowcount_unguarded(rs, run_id) == IF run_id \in DOMAIN rs THEN 1 ELSE 0

claim_rowcount(rs, run_id) ==
    IF run_id \in DOMAIN rs /\ rs[run_id].status = "pending" THEN 1 ELSE 0

\* (The table when the statement changes no row.)
claim_update_uncommitted(rs, run_id) == rs

claim_update(rs, run_id) ==
    IF claim_rowcount(rs, run_id) > 0
    THEN [rs EXCEPT ![run_id].status = "starting"]
    ELSE rs

\* check_heartbeats' SELECT id, pid FROM runs WHERE status = 'running' AND
\* (last_heartbeat IS NULL OR last_heartbeat < now - 30 s), in id order.
Stale(row) == row.last_heartbeat = NULL \/ row.last_heartbeat = Some("stale")

select_stale(rs) ==
    LET ids == SortedSeq({r \in DOMAIN rs : rs[r].status = "running" /\ Stale(rs[r])})
    IN [i \in 1..Len(ids) |-> <<ids[i], rs[ids[i]].pid>>]

\* ---------------------------------------------------------------- the host
\* psutil.pid_exists(pid): the process table holds the pid, which it does for
\* a running process and for an exited child its parent has not yet reaped.
pid_exists(procs, pid) ==
    pid \in DOMAIN procs /\ procs[pid].state \in {"alive", "zombie"}

\* subprocess.Popen(...): a new process, child of supervisor s.  main is the
\* place of the workload in strategies/runner.py main(): "startup" before
\* its signal handlers are installed, then "loop", and "stopping" once its
\* stopping flag is set.
Popen(procs, s, r) ==
    [p \in DOMAIN procs \cup {Pid(s, r)} |->
        IF p = Pid(s, r)
        THEN [run |-> r, state |-> "alive", rc |-> NULL, parent |-> s, sigterm |-> FALSE,
              main |-> "startup"]
        ELSE procs[p]]

\* process.poll() / process.wait() on an exited child: the child is reaped
\* and its return code is kept by the Popen object.
Reap(procs, pid) ==
    IF procs[pid].state = "zombie" THEN [procs EXCEPT ![pid].state = "gone"] ELSE procs

\* -------------------------------------------------------------- supervisor
\* RunnerService.__init__: empty dicts, running = True; the loop has not yet
\* begun a tick.  waited is the time, in seconds, that stop_strategy has spent
\* in process.wait(timeout=grace_period).
NewService ==
    [pc |-> "tick", pending_runs |-> << >>, running_processes |-> << >>,
     process_info |-> {}, items |-> << >>, stale_runs |-> << >>, stop_list |-> << >>,
     waited |-> 0]

\* del d[k] on the dict kept as the list of its keys in insertion order.
Del(seq, k) == SelectSeq(seq, LAMBDA x : x # k)
Has(seq, k) == \E i \in 1..Len(seq) : seq[i] = k

\* (The supervisor's state if the failure of a tick also emptied its dicts.)
TickAborted_forgetful(st) ==
    [st EXCEPT !.pc = "tick", !.pending_runs = << >>, !.items = << >>, !.stale_runs = << >>,
               !.running_processes = << >>, !.process_info = {}]

\* run()'s except Exception: the rest of the tick is dropped, the loop sleeps
\* and begins the next tick; the dicts keep what they hold.
TickAborted(st) ==
    [st EXCEPT !.pc = "tick", !.pending_runs = << >>, !.items = << >>, !.stale_runs = << >>]

\* What the properties need to know of the past:
\*   was_starting    runs whose status has been starting
\*   stop_requested  runs a stop was requested for (stop_run past its check,
\*                   or stop_strategy called)
\*   claims          per run, how many claim_run calls returned True, returned
\*                   False, and were left by an exception
\*   launches        per run, how many processes Popen has started
\*   reported        per run, the return code monitor_processes last read
\*   due             per supervisor, the running rows with a stale or missing
\*                   heartbeat and a vanished pid when its current tick began
\*   left_behind     the runs that were starting, running or stopping when a
\*                   supervisor was started again (kept only when
\*                   record_restarts is set, which SpecLive does)
\*   stop_reply      the last reply of stop_run to a request it refused: the
\*                   run id asked for, the status it read ("none" without a
\*                   row) and the HTTP status code
\*   spared          per supervisor, while it is in check_heartbeats: the runs
\*                   it fetched as stale and whose pid it found in the
\*                   process table
\*   in_startup      the runs whose process was started less than a startup
\*                   window ago
\*   cleanup_call    the last call of TaskRegistry.cleanup: its sid and what
\*                   the registry held for it ("unknown", "running", "done")
NewHist ==
    [was_starting |-> {},
     stop_requested |-> {},
     claims |-> [r \in RunIds |-> [true |-> 0, false |-> 0, raised |-> 0]],
     launches |-> [r \in RunIds |-> 0],
     reported |-> [r \in RunIds |-> NULL],
     due |-> [s \in Supervisors |-> {}],
     record_restarts |-> FALSE,
     left_behind |-> {},
     stop_reply |-> NULL,
     spared |-> [s \in Supervisors |-> {}],
     in_startup |-> {},
     cleanup_call |-> NULL]

\* IBManager.__init__: ib = IB(), not connected; _connected = False.
NewIBManager == [ib |-> NULL, _connected |-> FALSE]

\* ConnectionManager.__init__: _started = False; _mode = None.
NewConnectionManager == [_started |-> FALSE, _mode |-> NULL]

\* TaskRegistry.__init__: tasks, logs and task_info are empty dicts.
NewTaskRegistry == [tasks |-> << >>, logs |-> << >>, task_info |-> << >>]

\* The tables are empty and the RunnerService instances of S have been
\* constructed (the other instances do not exist).
InitWith(S) ==
    /\ runs = << >>
    /\ run_events = [r \in RunIds |-> << >>]
    /\ os = << >>
    /\ sup = [s \in S |-> NewService]
    /\ stop_reads = {}
    /\ delete_reads = {}
    /\ hist = NewHist
    /\ runs_id_seq = 0
    /\ task_registry = NewTaskRegistry
    /\ asyncio_tasks = << >>
    /\ lock = NULL
    /\ coroutines = << >>
    /\ requests = << >>
    /\ ib_manager = NewIBManager
    /\ connection_manager = NewConnectionManager
    /\ ensure_calls = << >>
    /\ deployments = << >>
    /\ deploy_reply = NULL

Init == InitWith(Supervisors)
InitSolo == InitWith({1})
InitLive ==
    /\ runs = << >>
    /\ run_events = [r \in RunIds |-> << >>]
    /\ os = << >>
    /\ sup = [s \in {1} |-> NewService]
    /\ stop_reads = {}
    /\ delete_reads = {}
    /\ hist = [NewHist EXCEPT !.record_restarts = TRUE]
    /\ runs_id_seq = 0
    /\ task_registry = NewTaskRegistry
    /\ asyncio_tasks = << >>
    /\ lock = NULL
    /\ coroutines = << >>
    /\ requests = << >>
    /\ ib_manager = NewIBManager
    /\ connection_manager = NewConnectionManager
    /\ ensure_calls = << >>
    /\ deployments = << >>
    /\ deploy_reply = NULL

\* ---------------------------------------------------------------- HTTP layer
\* create_run: INSERT ... 'pending' RETURNING id.  Nothing is checked first.
\* The id comes from the table's sequence, which never gives a value twice.
create_run(strategy_id, limit) ==
    /\ runs_id_seq < limit
    /\ LET id == runs_id_seq + 1
       IN /\ runs' = [r \in DOMAIN runs \cup {id} |->
                         IF r = id THEN NewRun(strategy_id) ELSE runs[r]]
          /\ runs_id_seq' = id
    /\ UNCHANGED <<run_events, os, sup, stop_reads, delete_reads, hist, registry>>

\* stop_run, first statement: SELECT status; 404 without a row, 400 unless the
\* status read is running or starting.
stop_run_select(run_id) ==
    /\ run_id \in DOMAIN runs
    /\ runs[run_id].status \in {"running", "starting"}
    /\ run_id \notin stop_reads
    /\ stop_reads' = stop_reads \cup {run_id}
    /\ hist' = [hist EXCEPT !.stop_requested = @ \cup {run_id}]
    /\ UNCHANGED <<runs, run_events, os, sup, delete_reads, runs_id_seq, registry>>

\* The HTTP status code of stop_run's reply, given the table its SELECT reads:
\* 404 "Run not found" without a row, 400 "Cannot stop run with status: ..."
\* unless the status is running or starting, else 200 with success = True.
\* (The reply when a missing row is not told from one that cannot be stopped.)
stop_run_reply_unfound(rs, run_id) ==
    IF run_id \in DOMAIN rs /\ rs[run_id].status \in {"running", "starting"} THEN 200
    ELSE 400

stop_run_reply(rs, run_id) ==
    IF run_id \notin DOMAIN rs THEN 404
    ELSE IF rs[run_id].status \notin {"running", "starting"} THEN 400
    ELSE 200

\* stop_run refusing the request: after its SELECT it raises HTTPException and
\* executes no other statement.
stop_run_refused(run_id) ==
    /\ ~(run_id \in DOMAIN runs /\ runs[run_id].status \in {"running", "starting"})
    /\ hist' = [hist EXCEPT !.stop_reply =
                  Some([run_id |-> run_id,
                        read |-> IF run_id \in DOMAIN runs THEN runs[run_id].status
                                 ELSE "none",
                        code |-> stop_run_reply(runs, run_id)])]
    /\ UNCHANGED <<runs, run_events, os, sup, stop_reads, delete_reads, runs_id_seq, registry>>

\* stop_run, second statement: UPDATE runs SET status = 'stopping' WHERE id.
stop_run_update(run_id) ==
    /\ run_id \in stop_reads
    /\ runs' = update_run_status(runs, run_id, "stopping", << >>)
    /\ stop_reads' = stop_reads \ {run_id}
    /\ UNCHANGED <<run_events, os, sup, hist, delete_reads, runs_id_seq, registry>>

\* delete_run, first statement: SELECT status; 404 without a row, 400 "Cannot
\* delete running run" when the status read is running, starting or stopping.
delete_run_select(run_id) ==
    /\ run_id \in DOMAIN runs
    /\ runs[run_id].status \notin {"running", "starting", "stopping"}
    /\ run_id \notin delete_reads
    /\ delete_reads' = delete_reads \cup {run_id}
    /\ UNCHANGED <<runs, run_events, os, sup, stop_reads, hist, runs_id_seq, registry>>

\* DELETE FROM run_events WHERE run_id; DELETE FROM runs WHERE id: the tables
\* after the two statements (no condition on the row's status).
delete_rows(rs, ev, run_id) ==
    [runs |-> [r \in DOMAIN rs \ {run_id} |-> rs[r]],
     run_events |-> [ev EXCEPT ![run_id] = << >>]]

\* delete_run, the two DELETE statements and the commit.
delete_run_delete(run_id) ==
    /\ run_id \in delete_reads
    /\ runs' = delete_rows(runs, run_events, run_id).runs
    /\ run_events' = delete_rows(runs, run_events, run_id).run_events
    /\ delete_reads' = delete_reads \ {run_id}
    /\ UNCHANGED <<os, sup, stop_reads, hist, runs_id_seq, registry>>

\* ------------------------------------------------------------- the workload
\* update_heartbeat: UPDATE runs SET last_heartbeat = now WHERE id = run_id.
update_heartbeat_and_status(pid) ==
    /\ pid \in DOMAIN os
    /\ os[pid].state = "alive"
    /\ os[pid].run \in DOMAIN runs
    /\ runs[os[pid].run].last_heartbeat # Some("fresh")
    /\ runs' = [runs EXCEPT ![os[pid].run].last_heartbeat = Some("fresh"),
                            ![os[pid].run].status = "running"]
    /\ UNCHANGED <<run_events, os, sup, stop_reads, delete_reads, hist, runs_id_seq, registry>>

update_heartbeat(pid) ==
    /\ pid \in DOMAIN os
    /\ os[pid].state = "alive"
    /\ os[pid].run \in DOMAIN runs
    /\ runs[os[pid].run].last_heartbeat # Some("fresh")
    /\ runs' = [runs EXCEPT ![os[pid].run].last_heartbeat = Some("fresh")]
    /\ UNCHANGED <<run_events, os, sup, stop_reads, delete_reads, hist, runs_id_seq, registry>>

\* Thirty seconds pass without a heartbeat of the run.  Only check_heartbeats
\* reads the age of a heartbeat, and only of rows whose status is running.
HeartbeatAges(run_id) ==
    /\ run_id \in DOMAIN runs
    /\ runs[run_id].status = "running"
    /\ runs[run_id].last_heartbeat = Some("fresh")
    /\ runs' = [runs EXCEPT ![run_id].last_heartbeat = Some("stale")]
    /\ UNCHANGED <<run_events, os, sup, stop_reads, delete_reads, hist, runs_id_seq, registry>>

\* The workload process ends with return code rc.  A child of a living
\* supervisor stays in the process table until that supervisor reaps it; an
\* orphan is reaped by init at once.
ProcessExits(pid, rc) ==
    /\ pid \in DOMAIN os
    /\ os[pid].state = "alive"
    /\ os' = [os EXCEPT ![pid].state = IF os[pid].parent = 0 THEN "gone" ELSE "zombie",
                        ![pid].rc = Some(rc)]
    /\ UNCHANGED <<runs, run_events, sup, stop_reads, delete_reads, hist, runs_id_seq, registry>>

\* main() up to signal.signal(signal.SIGTERM, signal_handler): from here on
\* SIGTERM calls signal_handler.
main_installs_handler(pid) ==
    /\ pid \in DOMAIN os
    /\ os[pid].state = "alive"
    /\ os[pid].main = "startup"
    /\ ~os[pid].sigterm
    /\ os' = [os EXCEPT ![pid].main = "loop"]
    /\ UNCHANGED <<runs, run_events, sup, stop_reads, delete_reads, hist, runs_id_seq, registry>>

\* signal_handler: global stopping; stopping = True.
signal_handler(pid) ==
    /\ pid \in DOMAIN os
    /\ os[pid].state = "alive"
    /\ os[pid].main = "loop"
    /\ os[pid].sigterm
    /\ os' = [os EXCEPT ![pid].main = "stopping"]
    /\ UNCHANGED <<runs, run_events, sup, stop_reads, delete_reads, hist, runs_id_seq, registry>>

\* SIGTERM reaches a process that has not installed a handler: the default
\* action ends it, and its return code is -SIGTERM.
TerminatedBySignal(pid) ==
    /\ pid \in DOMAIN os
    /\ os[pid].main = "startup"
    /\ os[pid].sigterm
    /\ ProcessExits(pid, -15)

\* while not stopping: ... ends; print; return 0; sys.exit(main()).
main_returns(pid) ==
    /\ pid \in DOMAIN os
    /\ os[pid].main = "stopping"
    /\ ProcessExits(pid, 0)

\* The startup window of a run passes.  No code reads the time since a launch.
StartupWindowElapses(run_id) ==
    /\ run_id \in hist.in_startup
    /\ hist' = [hist EXCEPT !.in_startup = @ \ {run_id}]
    /\ UNCHANGED <<runs, run_events, os, sup, stop_reads, delete_reads, runs_id_seq, registry>>

\* The running rows whose heartbeat is missing or stale and whose stored pid
\* is no longer in the process table.
DeadAndStale(rs, procs) ==
    {r \in DOMAIN rs : /\ rs[r].status = "running"
                       /\ Stale(rs[r])
                       /\ rs[r].pid # NULL
                       /\ ~pid_exists(procs, rs[r].pid[1])}

\* --------------------------------------------------- RunnerService.run loop
\* Start of a tick: pending_runs = self.get_pending_runs().
GetPendingRuns(s) ==
    /\ sup[s].pc = "tick"
    /\ sup' = [sup EXCEPT ![s].pc = "claim", ![s].pending_runs = get_pending_runs(runs)]
    /\ hist' = [hist EXCEPT !.due[s] = DeadAndStale(runs, os)]
    /\ UNCHANGED <<runs, run_events, os, stop_reads, delete_reads, runs_id_seq, registry>>

\* for run in pending_runs: if self.claim_run(run['id']): ...
\* claim_run commits its UPDATE when a row was changed and then calls
\* add_event; it returns claimed.  An add_event that raises leaves claim_run
\* by the exception, which run() catches for the whole tick.
ClaimRun(s) ==
    /\ sup[s].pc = "claim"
    /\ sup[s].pending_runs # << >>
    /\ LET run_id == Head(sup[s].pending_runs)
           claimed == claim_rowcount(runs, run_id) > 0
           seen == IF run_id \in DOMAIN runs' /\ runs'[run_id].status = "starting"
                   THEN hist.was_starting \cup {run_id} ELSE hist.was_starting
       IN IF claimed
          THEN /\ runs' = claim_update(runs, run_id)
               /\ \E outcome \in AddEventOutcomes :
                    IF outcome = "inserted"
                    THEN /\ run_events' = add_event(run_events, run_id, "info", "claimed")
                         /\ sup' = [sup EXCEPT ![s].pc = "launch"]
                         /\ hist' = [hist EXCEPT !.claims[run_id].true = @ + 1,
                                                 !.was_starting = seen]
                    ELSE /\ run_events' = run_events
                         /\ sup' = [sup EXCEPT ![s] = TickAborted(@)]
                         /\ hist' = [hist EXCEPT !.claims[run_id].raised = @ + 1,
                                                 !.was_starting = seen]
          ELSE /\ runs' = runs
               /\ run_events' = run_events
               /\ sup' = [sup EXCEPT ![s].pending_runs = Tail(@)]
               /\ hist' = [hist EXCEPT !.claims[run_id].false = @ + 1]
    /\ UNCHANGED <<os, stop_reads, delete_reads, runs_id_seq, registry>>

\* self.running_processes[run_id] = process; self.process_info[run_id] = {...}
Track(st, run_id) ==
    [st EXCEPT !.running_processes = IF Has(@, run_id) THEN @ ELSE Append(@, run_id),
               !.process_info = @ \cup {run_id}]

\* del self.running_processes[run_id]; if run_id in self.process_info: del ...
Untrack(st, run_id) ==
    [st EXCEPT !.running_processes = Del(@, run_id),
               !.process_info = @ \ {run_id}]

\* launch_strategy(run) by supervisor s.  popen says whether the try block up
\* to and including subprocess.Popen succeeds; started and handler are the
\* outcomes of the add_event after the status write and of the add_event that
\* opens the except branch.  The result gives the store, the host and the
\* supervisor after the call, and raised = TRUE when the exception leaves the
\* call (launch_strategy has no handler around its except branch).
\*   try:    Popen; dicts; update_run_status(running, pid, host, started_at);
\*           add_event(info); return pid
\*   except: add_event(error); update_run_status(error, exit_code=1); return None
launch_strategy(s, run_id, rs, ev, procs, st, popen, started, handler) ==
    LET rs_try == IF popen = "started"
                  THEN update_run_status(rs, run_id, "running",
                          [pid |-> Some(Pid(s, run_id)), host |-> Some(s),
                           started_at |-> Some("t")])
                  ELSE rs
        procs_try == IF popen = "started" THEN Popen(procs, s, run_id) ELSE procs
        st_try == IF popen = "started" THEN Track(st, run_id) ELSE st
    IN IF popen = "started" /\ started = "inserted"
       THEN [runs |-> rs_try, run_events |-> add_event(ev, run_id, "info", "started"),
             os |-> procs_try, st |-> st_try, raised |-> FALSE]
       ELSE IF handler = "inserted"
       THEN [runs |-> update_run_status(rs_try, run_id, "error", [exit_code |-> Some(1)]),
             run_events |-> add_event(ev, run_id, "error", "launch_failed"),
             os |-> procs_try, st |-> st_try, raised |-> FALSE]
       ELSE [runs |-> rs_try, run_events |-> ev, os |-> procs_try, st |-> st_try,
             raised |-> TRUE]

\*     if self.claim_run(run['id']): self.launch_strategy(run)
LaunchStrategy(s) ==
    /\ sup[s].pc = "launch"
    /\ \E popen \in {"started", "raised"}, started, handler \in AddEventOutcomes :
         \* one triple per distinct path through the call
         /\ popen = "raised" => started = "raised"
         /\ started = "inserted" => handler = "inserted"
         /\ LET run_id == Head(sup[s].pending_runs)
                out == launch_strategy(s, run_id, runs, run_events, os, sup[s],
                                       popen, started, handler)
            IN /\ runs' = out.runs
               /\ run_events' = out.run_events
               /\ os' = out.os
               /\ sup' = [sup EXCEPT ![s] =
                            IF out.raised THEN TickAborted(out.st)
                            ELSE [out.st EXCEPT !.pc = "claim", !.pending_runs = Tail(@)]]
               /\ hist' = [hist EXCEPT !.launches[run_id] =
                                         IF popen = "started" THEN @ + 1 ELSE @,
                                       !.in_startup =
                                         IF popen = "started" THEN @ \cup {run_id} ELSE @]
    /\ UNCHANGED <<stop_reads, delete_reads, runs_id_seq, registry>>

\* self.monitor_processes(): the loop runs over list(self.running_processes.items()).
BeginMonitor(s) ==
    /\ sup[s].pc = "claim"
    /\ sup[s].pending_runs = << >>
    /\ sup' = [sup EXCEPT ![s].pc = "monitor", ![s].items = sup[s].running_processes]
    /\ UNCHANGED <<runs, run_events, os, stop_reads, delete_reads, hist, runs_id_seq, registry>>

\* The status monitor_processes writes for a process that ended with exit_code.
monitor_status(exit_code) == "stopped"

\* One iteration of monitor_processes for run_id, whose process has ended:
\*   update_run_status(run_id, 'stopped', stopped_at=now, exit_code=returncode)
\*   add_event(info "completed" if exit_code == 0 else error "failed")
\*   del self.running_processes[run_id]; del self.process_info[run_id]
monitor_finished(run_id, exit_code, rs, ev, st, event) ==
    LET rs1 == update_run_status(rs, run_id, monitor_status(exit_code),
                    [stopped_at |-> Some("t"), exit_code |-> Some(exit_code)])
    IN IF event = "inserted"
       THEN [runs |-> rs1,
             run_events |-> IF exit_code = 0
                            THEN add_event(ev, run_id, "info", "completed")
                            ELSE add_event(ev, run_id, "error", "failed"),
             st |-> Untrack(st, run_id), raised |-> FALSE]
       ELSE [runs |-> rs1, run_events |-> ev, st |-> st, raised |-> TRUE]

\* for run_id, process in ...: if process.poll() is not None: ...
MonitorProcesses(s) ==
    /\ sup[s].pc = "monitor"
    /\ sup[s].items # << >>
    /\ LET run_id == Head(sup[s].items)
           pid == Pid(s, run_id)
       IN IF os[pid].state = "alive"
          THEN /\ sup' = [sup EXCEPT ![s].items = Tail(@)]
               /\ UNCHANGED <<runs, run_events, os, hist>>
          ELSE \E event \in AddEventOutcomes :
                 LET out == monitor_finished(run_id, os[pid].rc[1], runs, run_events,
                                             sup[s], event)
                 IN /\ runs' = out.runs
                    /\ run_events' = out.run_events
                    /\ os' = Reap(os, pid)
                    /\ sup' = [sup EXCEPT ![s] =
                                 IF out.raised THEN TickAborted(out.st)
                                 ELSE [out.st EXCEPT !.items = Tail(@)]]
                    /\ hist' = [hist EXCEPT !.reported[run_id] = os[pid].rc]
    /\ UNCHANGED <<stop_reads, delete_reads, runs_id_seq, registry>>

\* self.check_heartbeats(): its SELECT gives stale_runs.
BeginCheckHeartbeats(s) ==
    /\ sup[s].pc = "monitor"
    /\ sup[s].items = << >>
    /\ sup' = [sup EXCEPT ![s].pc = "heartbeats", ![s].stale_runs = select_stale(runs)]
    /\ UNCHANGED <<runs, run_events, os, stop_reads, delete_reads, hist, runs_id_seq, registry>>

\* (The test without the probe of the process table.)
process_is_dead_unprobed(procs, pid) == pid # NULL /\ pid[1] # 0

\* if pid and not psutil.pid_exists(pid)
process_is_dead(procs, pid) == pid # NULL /\ pid[1] # 0 /\ ~pid_exists(procs, pid[1])

\* One iteration of check_heartbeats for a row whose process is dead:
\*   update_run_status(run_id, 'dead', exit_code=-1); add_event(error);
\*   del the run from both dicts when it is there.
mark_dead(run_id, rs, ev, st, event) ==
    LET rs1 == update_run_status(rs, run_id, "dead", [exit_code |-> Some(-1)])
    IN IF event = "inserted"
       THEN [runs |-> rs1, run_events |-> add_event(ev, run_id, "error", "died"),
             st |-> Untrack(st, run_id), raised |-> FALSE]
       ELSE [runs |-> rs1, run_events |-> ev, st |-> st, raised |-> TRUE]

\* for run_id, pid in stale_runs: ...
CheckHeartbeats(s) ==
    /\ sup[s].pc = "heartbeats"
    /\ sup[s].stale_runs # << >>
    /\ LET run_id == Head(sup[s].stale_runs)[1]
           pid == Head(sup[s].stale_runs)[2]
       IN IF process_is_dead(os, pid)
          THEN \E event \in AddEventOutcomes :
                 LET out == mark_dead(run_id, runs, run_events, sup[s], event)
                 IN /\ runs' = out.runs
                    /\ run_events' = out.run_events
                    /\ sup' = [sup EXCEPT ![s] =
                                 IF out.raised THEN TickAborted(out.st)
                                 ELSE [out.st EXCEPT !.stale_runs = Tail(@)]]
                    /\ hist' = [hist EXCEPT !.spared[s] = IF out.raised THEN {} ELSE @]
          ELSE /\ sup' = [sup EXCEPT ![s].stale_runs = Tail(@)]
               /\ hist' = [hist EXCEPT !.spared[s] =
                             IF pid # NULL /\ pid[1] # 0 THEN @ \cup {run_id} ELSE @]
               /\ UNCHANGED <<runs, run_events>>
    /\ UNCHANGED <<os, stop_reads, delete_reads, runs_id_seq, registry>>

\* End of the tick: await asyncio.sleep(2), then the next tick.
EndTick(s) ==
    /\ sup[s].pc = "heartbeats"
    /\ sup[s].stale_runs = << >>
    /\ sup' = [sup EXCEPT ![s].pc = "tick"]
    /\ hist' = [hist EXCEPT !.spared[s] = {}]
    /\ UNCHANGED <<runs, run_events, os, stop_reads, delete_reads, runs_id_seq, registry>>

\* ------------------------------------------------------------------ shutdown
\* The supervisor process is gone: its children that still run are orphans,
\* those that had ended are reaped by init.
Orphaned(procs, s) ==
    [p \in DOMAIN procs |->
        IF procs[p].parent # s THEN procs[p]
        ELSE [procs[p] EXCEPT !.parent = 0,
                              !.state = IF @ = "zombie" THEN "gone" ELSE @]]

Exited(st) == [NewService EXCEPT !.pc = "exited"]

\* except KeyboardInterrupt (raised while the tick's synchronous code runs):
\* self.running = False; break; then
\*   for run_id in list(self.running_processes.keys()): self.stop_strategy(run_id, 5)
KeyboardInterrupt(s) ==
    /\ sup[s].pc \in {"claim", "launch", "monitor", "heartbeats"}
    /\ sup' = [sup EXCEPT ![s] = [TickAborted(@) EXCEPT
                                    !.pc = "cleanup",
                                    !.stop_list = sup[s].running_processes]]
    /\ hist' = [hist EXCEPT !.spared[s] = {}]
    /\ UNCHANGED <<runs, run_events, os, stop_reads, delete_reads, runs_id_seq, registry>>

\* stop_strategy's except branch: add_event(error); update_run_status(error);
\* return False.  When that add_event raises, the exception leaves
\* stop_strategy and run(), and the supervisor process ends.
stop_failed(run_id, rs, ev, st, handler) ==
    IF handler = "inserted"
    THEN [runs |-> update_run_status(rs, run_id, "error", << >>),
          run_events |-> add_event(ev, run_id, "error", "stop_error"),
          st |-> st, raised |-> FALSE]
    ELSE [runs |-> rs, run_events |-> ev, st |-> st, raised |-> TRUE]

\* stop_strategy up to process.wait(timeout=grace_period):
\*   update_run_status(stopping); add_event(info); killpg(getpgid(pid), SIGTERM)
\* getpgid raises for a pid that is no longer in the process table.
\* signalled = TRUE when the signal was sent and the call goes on to wait.
stop_strategy_signal(s, run_id, rs, ev, procs, st, event, handler) ==
    LET rs1 == update_run_status(rs, run_id, "stopping", << >>)
        pid == Pid(s, run_id)
    IN IF event = "inserted" /\ pid_exists(procs, pid)
       THEN [runs |-> rs1, run_events |-> add_event(ev, run_id, "info", "stopping"),
             os |-> [procs EXCEPT ![pid].sigterm = TRUE],
             st |-> st, raised |-> FALSE, signalled |-> TRUE]
       ELSE LET ev1 == IF event = "inserted"
                       THEN add_event(ev, run_id, "info", "stopping") ELSE ev
                out == stop_failed(run_id, rs1, ev1, st, handler)
            IN [runs |-> out.runs, run_events |-> out.run_events, os |-> procs,
                st |-> out.st, raised |-> out.raised, signalled |-> FALSE]

\* The status stop_strategy writes at its end, given whether the grace period
\* was exceeded.
stop_status(forced) == "stopped"

\* stop_strategy from process.wait(timeout=grace_period) on.  forced = FALSE:
\* the process ended within the grace period, exit_code = returncode.
\* forced = TRUE: TimeoutExpired; add_event(warn); killpg(SIGKILL);
\* process.wait(); exit_code = -1.  Then the run leaves both dicts,
\* update_run_status(stopped, stopped_at, exit_code); add_event(info).
stop_strategy_wait(s, run_id, rs, ev, procs, st, forced, warn, event, handler) ==
    LET pid == Pid(s, run_id)
    IN IF forced /\ warn = "raised"
       THEN LET out == stop_failed(run_id, rs, ev, st, handler)
            IN [runs |-> out.runs, run_events |-> out.run_events, os |-> procs,
                st |-> out.st, raised |-> out.raised]
       ELSE LET ev1 == IF forced THEN add_event(ev, run_id, "warn", "grace_exceeded")
                       ELSE ev
                procs1 == IF forced
                          THEN [procs EXCEPT ![pid].state = "gone", ![pid].rc = Some(-9)]
                          ELSE Reap(procs, pid)
                exit_code == IF forced THEN -1 ELSE procs[pid].rc[1]
                st1 == Untrack(st, run_id)
                rs1 == update_run_status(rs, run_id, stop_status(forced),
                            [stopped_at |-> Some("t"), exit_code |-> Some(exit_code)])
            IN IF event = "inserted"
               THEN [runs |-> rs1, run_events |-> add_event(ev1, run_id, "info", "stopped"),
                     os |-> procs1, st |-> st1, raised |-> FALSE]
               ELSE LET out == stop_failed(run_id, rs1, ev1, st1, handler)
                    IN [runs |-> out.runs, run_events |-> out.run_events, os |-> procs1,
                        st |-> out.st, raised |-> out.raised]

\* stop_strategy(run_id, grace_period=5), first half.
StopStrategySignal(s) ==
    /\ sup[s].pc = "cleanup"
    /\ sup[s].stop_list # << >>
    /\ \E event, handler \in AddEventOutcomes :
         LET run_id == Head(sup[s].stop_list)
             out == stop_strategy_signal(s, run_id, runs, run_events, os, sup[s],
                                         event, handler)
         IN /\ (event = "inserted" /\ pid_exists(os, Pid(s, run_id))) => handler = "inserted"
            /\ runs' = out.runs
            /\ run_events' = out.run_events
            /\ os' = IF out.raised THEN Orphaned(out.os, s) ELSE out.os
            /\ sup' = [sup EXCEPT ![s] =
                         IF out.raised THEN Exited(out.st)
                         ELSE IF out.signalled THEN [out.st EXCEPT !.pc = "stop_wait"]
                         ELSE [out.st EXCEPT !.stop_list = Tail(@)]]
            /\ hist' = [hist EXCEPT !.stop_requested = @ \cup {run_id}]
    /\ UNCHANGED <<stop_reads, delete_reads, runs_id_seq, registry>>

\* process.wait(timeout=grace_period) raises TimeoutExpired when the timeout
\* has passed and the process has not ended.
wait_timed_out(waited, timeout) == waited >= timeout

\* A second passes while stop_strategy waits for a process that still runs.
WaitForProcess(s) ==
    /\ sup[s].pc = "stop_wait"
    /\ os[Pid(s, Head(sup[s].stop_list))].state = "alive"
    /\ ~wait_timed_out(sup[s].waited, grace_period)
    /\ sup' = [sup EXCEPT ![s].waited = @ + 1]
    /\ UNCHANGED <<runs, run_events, os, stop_reads, delete_reads, hist, runs_id_seq, registry>>

\* The same second for the workload of strategies/runner.py: a signal is
\* delivered at once, and a workload whose stopping flag is set leaves its
\* loop when the time.sleep(1) of the current iteration is over.
WaitForWorkload(s) ==
    /\ WaitForProcess(s)
    /\ LET p == os[Pid(s, Head(sup[s].stop_list))]
       IN /\ ~(p.sigterm /\ p.main \in {"startup", "loop"})
          /\ p.main = "stopping" => sup[s].waited < loop_iteration

\* stop_strategy, second half: the wait returns because the process has ended,
\* or the grace period runs out while it still runs.
StopStrategyWait(s) ==
    /\ sup[s].pc = "stop_wait"
    /\ \/ os[Pid(s, Head(sup[s].stop_list))].state # "alive"
       \/ wait_timed_out(sup[s].waited, grace_period)
    /\ \E warn, event, handler \in AddEventOutcomes :
         LET run_id == Head(sup[s].stop_list)
             forced == os[Pid(s, run_id)].state = "alive"
             out == stop_strategy_wait(s, run_id, runs, run_events, os, sup[s],
                                       forced, warn, event, handler)
         IN /\ ~forced => warn = "inserted"
            /\ (warn = "inserted" /\ event = "inserted") => handler = "inserted"
            /\ (warn = "raised") => event = "inserted"
            /\ runs' = out.runs
            /\ run_events' = out.run_events
            /\ os' = IF out.raised THEN Orphaned(out.os, s) ELSE out.os
            /\ sup' = [sup EXCEPT ![s] =
                         IF out.raised THEN Exited(out.st)
                         ELSE [out.st EXCEPT !.pc = "cleanup", !.stop_list = Tail(@),
                                             !.waited = 0]]
    /\ UNCHANGED <<stop_reads, delete_reads, hist, runs_id_seq, registry>>

\* print("Runner Service stopped"): run() returns and the process ends.
ServiceStopped(s) ==
    /\ sup[s].pc = "cleanup"
    /\ sup[s].stop_list = << >>
    /\ sup' = [sup EXCEPT ![s] = Exited(@)]
    /\ os' = Orphaned(os, s)
    /\ UNCHANGED <<runs, run_events, stop_reads, delete_reads, hist, runs_id_seq, registry>>

\* The supervisor process is killed, or its loop is cancelled while it sleeps:
\* nothing of run() after the loop is executed.
Crash(s) ==
    /\ sup[s].pc # "exited"
    /\ sup' = [sup EXCEPT ![s] = Exited(@)]
    /\ os' = Orphaned(os, s)
    /\ hist' = [hist EXCEPT !.spared[s] = {}]
    /\ UNCHANGED <<runs, run_events, stop_reads, delete_reads, runs_id_seq, registry>>

\* No process of run r is in the process table.
ProcessGone(r) == \A p \in DOMAIN os : os[p].run = r => ~pid_exists(os, p)

\* The operator starts the service again after it has ended:
\* runner = RunnerService(); asyncio.run(runner.run()).
Restart(s) ==
    /\ sup[s].pc = "exited"
    /\ sup' = [sup EXCEPT ![s] = NewService]
    /\ hist' = [hist EXCEPT !.due[s] = {},
                             !.left_behind =
                                 IF hist.record_restarts
                                 THEN @ \cup {r \in DOMAIN runs : runs[r].status \in Active}
                                 ELSE @]
    /\ UNCHANGED <<runs, run_events, os, stop_reads, delete_reads, runs_id_seq, registry>>

\* ---------------------------------------------------------- embedded backend
\* The variables of the store, the host and the RunnerService instances.
supervision == <<runs, run_events, os, sup, stop_reads, delete_reads, runs_id_seq>>

\* Python dicts as functions: d.get(k) (None without the key), d[k] = v and
\* del d[k] guarded by "if k in d".
DictGet(d, k) == IF k \in DOMAIN d THEN Some(d[k]) ELSE NULL
DictSet(d, k, v) == [x \in DOMAIN d \cup {k} |-> IF x = k THEN v ELSE d[x]]
DictDel(d, k) == [x \in DOMAIN d \ {k} |-> d[x]]

\* task.done() of an asyncio task.
done(tasks_state, task) == tasks_state[task] # "running"

\* (is_running without the test of task.done().)
is_running_whether_done(reg, tasks_state, sid) == DictGet(reg.tasks, sid) # NULL

\* TaskRegistry.is_running:
\*   task = self.tasks.get(sid); return task is not None and not task.done()
is_running(reg, tasks_state, sid) ==
    LET task == DictGet(reg.tasks, sid)
    IN task # NULL /\ ~done(tasks_state, task[1])

\* TaskRegistry.get_task_info: self.task_info.get(sid)
get_task_info(reg, sid) == DictGet(reg.task_info, sid)

\* TaskRegistry.get_all_running_tasks: for every sid in tasks whose task is
\* not done, self.task_info.get(sid, {}).
get_all_running_tasks(reg, tasks_state) ==
    [sid \in {x \in DOMAIN reg.tasks : ~done(tasks_state, reg.tasks[x])} |->
        IF sid \in DOMAIN reg.task_info THEN reg.task_info[sid] ELSE "{}"]

\* TaskRegistry.get_logs: self.logs.get(sid, [])
get_logs(reg, sid) == IF sid \in DOMAIN reg.logs THEN reg.logs[sid] ELSE << >>

\* TaskRegistry.log, under the lock: the line is appended to logs[sid], which
\* is created when missing.
log(reg, sid, msg) == [reg EXCEPT !.logs = DictSet(@, sid, Append(get_logs(reg, sid), msg))]

\* TaskRegistry.add, under the lock: tasks[sid] = task; task_info[sid] = task_info
add(reg, sid, task, task_info) ==
    [reg EXCEPT !.tasks = DictSet(@, sid, task), !.task_info = DictSet(@, sid, task_info)]

\* (cleanup without the test of task.done().)
cleanup_whether_done(reg, tasks_state, sid) ==
    IF DictGet(reg.tasks, sid) # NULL
    THEN [reg EXCEPT !.tasks = DictDel(@, sid), !.task_info = DictDel(@, sid)]
    ELSE reg

\* TaskRegistry.cleanup, under the lock:
\*   task = self.tasks.get(sid)
\*   if task and task.done(): del self.tasks[sid]; del self.task_info[sid] if there
cleanup(reg, tasks_state, sid) ==
    LET task == DictGet(reg.tasks, sid)
    IN IF task # NULL /\ done(tasks_state, task[1])
       THEN [reg EXCEPT !.tasks = DictDel(@, sid), !.task_info = DictDel(@, sid)]
       ELSE reg

\* asyncio.create_task(...): a new task, not yet finished.
CreateTask ==
    /\ Cardinality(DOMAIN asyncio_tasks) < MaxTasks
    /\ asyncio_tasks' = DictSet(asyncio_tasks, Cardinality(DOMAIN asyncio_tasks) + 1,
                                "running")
    /\ UNCHANGED <<supervision, deployment, hist, task_registry, callers, connection>>

\* The coroutine of a task returns or raises: the task is done.
TaskFinishes(task) ==
    /\ task \in DOMAIN asyncio_tasks
    /\ asyncio_tasks[task] = "running"
    /\ asyncio_tasks' = [asyncio_tasks EXCEPT ![task] = "finished"]
    /\ UNCHANGED <<supervision, deployment, hist, task_registry, callers, connection>>

\* await task_registry.add(sid, task, task_info)
Add(sid, task, task_info) ==
    /\ task \in DOMAIN asyncio_tasks
    /\ task_registry' = add(task_registry, sid, task, task_info)
    /\ UNCHANGED <<supervision, deployment, hist, asyncio_tasks, callers, connection>>

\* await task_registry.log(sid, msg)
Log(sid, msg) ==
    /\ \A x \in DOMAIN task_registry.logs : Len(task_registry.logs[x]) < MaxLogLines
    /\ task_registry' = log(task_registry, sid, msg)
    /\ UNCHANGED <<supervision, deployment, hist, asyncio_tasks, callers, connection>>

\* What the registry holds for sid.
Held(reg, tasks_state, sid) ==
    IF sid \notin DOMAIN reg.tasks THEN "unknown"
    ELSE IF done(tasks_state, reg.tasks[sid]) THEN "done"
    ELSE "running"

\* await task_registry.cleanup(sid)
Cleanup(sid) ==
    /\ task_registry' = cleanup(task_registry, asyncio_tasks, sid)
    /\ hist' = [hist EXCEPT !.cleanup_call =
                  Some([sid |-> sid, held |-> Held(task_registry, asyncio_tasks, sid)])]
    /\ UNCHANGED <<supervision, deployment, asyncio_tasks, callers, connection>>

\* IBManager.connect: port = 7497 if paper else 7496
Port(paper) == IF paper THEN 7497 ELSE 7496

\* ib.isConnected()
isConnected(ibm) == ibm.ib # NULL

\* IBManager.connect(paper=paper): the connection and whether the call
\* raised.  A manager that is connected returns its ib as it is; else
\* ib.connectAsync(host, port) connects, or raises when nothing listens.
connect(ibm, paper, listening) ==
    IF ibm._connected /\ isConnected(ibm)
    THEN [ibm |-> ibm, raised |-> FALSE]
    ELSE IF listening
    THEN [ibm |-> [ib |-> Some(Port(paper)), _connected |-> TRUE], raised |-> FALSE]
    ELSE [ibm |-> ibm, raised |-> TRUE]

\* ConnectionManager.ensure_connection(mode): _mode = mode, connect, then the
\* smoke test ib.reqCurrentTimeAsync(): True when it answers, False when it
\* raises.  An exception of connect leaves the call.
ensure_connection(mode, listening, answers) ==
    /\ Len(ensure_calls) < MaxCalls
    /\ LET c == connect(ib_manager, mode = "paper", listening)
       IN /\ ib_manager' = c.ibm
          /\ connection_manager' = [connection_manager EXCEPT !._mode = Some(mode)]
          /\ ensure_calls' = Append(ensure_calls,
                 [mode |-> mode,
                  returned |-> IF c.raised THEN "raised"
                               ELSE IF answers THEN "True" ELSE "False"])
    /\ UNCHANGED <<supervision, deployment, hist, task_registry, asyncio_tasks, callers>>

\* ConnectionManager.start
connection_manager_start ==
    /\ ~connection_manager._started
    /\ connection_manager' = [connection_manager EXCEPT !._started = TRUE]
    /\ UNCHANGED <<supervision, deployment, hist, task_registry, asyncio_tasks, callers, ib_manager,
                   ensure_calls>>

\* ConnectionManager.stop: IBManager.disconnect() (disconnectAsync when
\* _connected, then _connected = False) and _started = False.
connection_manager_stop ==
    /\ connection_manager._started
    /\ ib_manager' = IF ib_manager._connected THEN NewIBManager ELSE ib_manager
    /\ connection_manager' = [connection_manager EXCEPT !._started = FALSE]
    /\ UNCHANGED <<supervision, deployment, hist, task_registry, asyncio_tasks, callers,
                   ensure_calls>>

\* TWS or the gateway closes the connection.
ConnectionLost ==
    /\ isConnected(ib_manager)
    /\ ib_manager' = [ib_manager EXCEPT !.ib = NULL]
    /\ UNCHANGED <<supervision, deployment, hist, task_registry, asyncio_tasks, callers,
                   connection_manager, ensure_calls>>

\* A request of the strategies router: the handler, the sid of its path, the
\* place it is suspended at ("replied" when it has answered), the status code
\* of its reply and, for a stop, the task that cancel awaits.
Request(handler, sid, pc, reply, task) ==
    [handler |-> handler, sid |-> sid, pc |-> pc, reply |-> reply, task |-> task]

\* The next request to arrive and the next task asyncio creates.
NextRequest == Cardinality(DOMAIN requests) + 1
NextTask == Cardinality(DOMAIN asyncio_tasks) + 1

\* run_strategy_api up to its first suspension: "Strategy is already running"
\* (400) when task_registry.is_running(sid), else await request.json().
run_strategy_api(sid) ==
    /\ NextRequest <= MaxRequests
    /\ requests' = DictSet(requests, NextRequest,
          IF is_running(task_registry, asyncio_tasks, sid)
          THEN Request("run_strategy_api", sid, "replied", Some(400), NULL)
          ELSE Request("run_strategy_api", sid, "request_json", NULL, NULL))
    /\ UNCHANGED <<supervision, deployment, hist, task_registry, asyncio_tasks, lock, coroutines,
                   connection>>

\* run_strategy_api after request.json(): start_strategy creates the task of
\* run_strategy(sid, ...) and awaits task_registry.add, which goes on at once
\* when the lock is free and else waits for it on line 52; then the reply
\* "started".
start_strategy(r) ==
    /\ r \in DOMAIN requests
    /\ requests[r].pc = "request_json"
    /\ NextTask <= MaxTasks
    /\ asyncio_tasks' = DictSet(asyncio_tasks, NextTask, "running")
    /\ coroutines' = DictSet(coroutines, NextTask,
                             [sid |-> requests[r].sid, pc |-> "scheduled",
                              must_cancel |-> FALSE])
    /\ IF lock = NULL
       THEN /\ task_registry' = add(task_registry, requests[r].sid, NextTask, "info_a")
            /\ requests' = [requests EXCEPT ![r].pc = "replied", ![r].reply = Some(200)]
       ELSE /\ requests' = [requests EXCEPT ![r].pc = "add"]
            /\ UNCHANGED task_registry
    /\ UNCHANGED <<supervision, deployment, hist, lock, connection>>

\* stop_strategy_api up to its first suspension: "Strategy is not running"
\* (400) unless task_registry.is_running(sid); else task_registry.cancel(sid),
\* which takes the lock (or waits for it on line 75), and for a task that is
\* not done calls task.cancel() and awaits the task, the lock held.
stop_strategy_api(sid) ==
    /\ NextRequest <= MaxRequests
    /\ LET task == DictGet(task_registry.tasks, sid)
           new(pc, reply, t) == DictSet(requests, NextRequest,
                                        Request("stop_strategy_api", sid, pc, reply, t))
       IN IF ~is_running(task_registry, asyncio_tasks, sid)
          THEN /\ requests' = new("replied", Some(400), NULL)
               /\ UNCHANGED <<lock, coroutines>>
          ELSE IF lock # NULL
          THEN /\ requests' = new("acquire", NULL, NULL)
               /\ UNCHANGED <<lock, coroutines>>
          ELSE IF task # NULL /\ ~done(asyncio_tasks, task[1])
          THEN /\ coroutines' = [coroutines EXCEPT ![task[1]].must_cancel = TRUE]
               /\ lock' = Some(NextRequest)
               /\ requests' = new("await_task", NULL, task)
          ELSE /\ requests' = new("replied", Some(400), NULL)
               /\ UNCHANGED <<lock, coroutines>>
    /\ UNCHANGED <<supervision, deployment, hist, task_registry, asyncio_tasks, connection>>

\* What IBManager.is_connected() and get_connection_info()['type'] give to
\* deploy_strategy_api (lines 438-453): connected in the mode asked for, or
\* not.  src/app/ib_adapter.py defines neither method.
ConnectionChecks == BOOLEAN

\* The running DeploymentHistory rows of strategy sid.
RunningDeployments(sid) ==
    {d \in DOMAIN deployments : /\ deployments[d].strategy_id = sid
                                /\ deployments[d].status = "running"}

\* deploy_strategy_api.  existing is the row that .first() gives of the
\* running rows of the strategy (0 for None); the select has no ORDER BY, so
\* it may be any of them.  connected stands for the connection checks of
\* lines 438-453, started for what loading and starting the strategy did.
deploy_strategy_api(sid, tickers, selected_accounts, existing, connected, started) ==
    /\ Len(deployments) < MaxDeployments
    /\ existing \in (IF RunningDeployments(sid) = {} THEN {0} ELSE RunningDeployments(sid))
    /\ IF tickers = ""
       THEN /\ deploy_reply' = Some("No tickers provided")
            /\ UNCHANGED <<deployments, task_registry, asyncio_tasks, coroutines>>
       ELSE IF selected_accounts = {}
       THEN /\ deploy_reply' = Some("No accounts selected")
            /\ UNCHANGED <<deployments, task_registry, asyncio_tasks, coroutines>>
       ELSE IF existing # 0 /\ selected_accounts \cap deployments[existing].accounts # {}
       THEN /\ deploy_reply' = Some("Strategy is already running on account(s)")
            /\ UNCHANGED <<deployments, task_registry, asyncio_tasks, coroutines>>
       ELSE IF ~connected
       THEN /\ deploy_reply' = Some("IBKR connection not established")
            /\ UNCHANGED <<deployments, task_registry, asyncio_tasks, coroutines>>
       ELSE LET deployment_record == [strategy_id |-> sid, accounts |-> selected_accounts,
                                      status |-> "running"]
            IN IF started = "started"
               THEN /\ lock = NULL
                    /\ NextTask <= MaxTasks
                    /\ deployments' = Append(deployments, deployment_record)
                    /\ asyncio_tasks' = DictSet(asyncio_tasks, NextTask, "running")
                    /\ coroutines' = DictSet(coroutines, NextTask,
                                             [sid |-> sid, pc |-> "scheduled",
                                              must_cancel |-> FALSE])
                    /\ task_registry' = add(task_registry, sid, NextTask, "info_a")
                    /\ deploy_reply' = Some("deployed successfully")
               ELSE IF started = "not loaded"
               THEN /\ deployments' = Append(deployments, deployment_record)
                    /\ deploy_reply' = Some("Failed to load strategy from file")
                    /\ UNCHANGED <<task_registry, asyncio_tasks, coroutines>>
               ELSE /\ deployments' = Append(deployments,
                                             [deployment_record EXCEPT !.status = "failed"])
                    /\ deploy_reply' = Some("Failed to execute strategy code")
                    /\ UNCHANGED <<task_registry, asyncio_tasks, coroutines>>
    /\ UNCHANGED <<supervision, hist, lock, requests, connection>>

\* update_deployment_status: the row's status becomes the status of the body.
update_deployment_status(deployment_id, status) ==
    /\ deployment_id \in DOMAIN deployments
    /\ deployments[deployment_id].status # status
    /\ deployments' = [deployments EXCEPT ![deployment_id].status = status]
    /\ UNCHANGED <<supervision, hist, task_registry, asyncio_tasks, callers, connection,
                   deploy_reply>>

\* The rest of run_strategy from one of its log calls with the lock free: the
\* line is logged, the finally clause calls task_registry.cleanup(sid) from
\* inside the task, which is not done yet, and then the task is done.
run_strategy_ends(task, line, state) ==
    /\ task_registry' = cleanup(log(task_registry, coroutines[task].sid, line),
                                asyncio_tasks, coroutines[task].sid)
    /\ asyncio_tasks' = [asyncio_tasks EXCEPT ![task] = state]
    /\ coroutines' = [coroutines EXCEPT ![task].pc = "done", ![task].must_cancel = FALSE]

\* The event loop runs a new task: run_strategy logs "Loading strategy..."
\* (or waits for the lock on line 180), loads the strategy and suspends in
\* ensure_connection and strategy.run.
run_strategy_starts(task) ==
    /\ task \in DOMAIN coroutines
    /\ coroutines[task].pc = "scheduled"
    /\ ~coroutines[task].must_cancel
    /\ IF lock = NULL
       THEN /\ task_registry' = log(task_registry, coroutines[task].sid, "Loading strategy...")
            /\ coroutines' = [coroutines EXCEPT ![task].pc = "strategy_run"]
       ELSE /\ coroutines' = [coroutines EXCEPT ![task].pc = "log"]
            /\ UNCHANGED task_registry
    /\ UNCHANGED <<supervision, deployment, hist, asyncio_tasks, lock, requests, connection>>

\* strategy.run returns (line 201) or something in the try block raises (line
\* 256): the line is logged, or the task waits for the lock.
run_strategy_resumes(task, line) ==
    /\ task \in DOMAIN coroutines
    /\ coroutines[task].pc = "strategy_run"
    /\ ~coroutines[task].must_cancel
    /\ IF lock = NULL
       THEN run_strategy_ends(task, line, "finished")
       ELSE /\ coroutines' = [coroutines EXCEPT ![task].pc = "log"]
            /\ UNCHANGED <<task_registry, asyncio_tasks>>
    /\ UNCHANGED <<supervision, deployment, hist, lock, requests, connection>>

\* The event loop delivers the cancellation asked by task.cancel().  A task
\* that never ran ends cancelled without entering run_strategy; one suspended
\* in the try block gets CancelledError there and its handler (line 242) logs
\* "Strategy cancelled", or waits for the lock.
CancelledError(task) ==
    /\ task \in DOMAIN coroutines
    /\ coroutines[task].must_cancel
    /\ coroutines[task].pc \in {"scheduled", "strategy_run"}
    /\ IF coroutines[task].pc = "scheduled"
       THEN /\ asyncio_tasks' = [asyncio_tasks EXCEPT ![task] = "cancelled"]
            /\ coroutines' = [coroutines EXCEPT ![task].pc = "done",
                                                ![task].must_cancel = FALSE]
            /\ UNCHANGED task_registry
       ELSE IF lock = NULL
       THEN run_strategy_ends(task, "Strategy cancelled", "cancelled")
       ELSE /\ coroutines' = [coroutines EXCEPT ![task].pc = "except_cancelled",
                                                ![task].must_cancel = FALSE]
            /\ UNCHANGED <<task_registry, asyncio_tasks>>
    /\ UNCHANGED <<supervision, deployment, hist, lock, requests, connection>>

\* cancel after `await task`: the task is done, CancelledError is passed over
\* and self.log(sid, "Strategy cancelled by user") is awaited inside the
\* `async with self._lock` of cancel.  asyncio.Lock is not reentrant: log goes
\* on when the lock is free and else waits for it on line 40.
cancel_resumes(r) ==
    /\ r \in DOMAIN requests
    /\ requests[r].pc = "await_task"
    /\ done(asyncio_tasks, requests[r].task[1])
    /\ IF lock = NULL
       THEN /\ task_registry' = log(task_registry, requests[r].sid,
                                    "Strategy cancelled by user")
            /\ requests' = [requests EXCEPT ![r].pc = "replied", ![r].reply = Some(200)]
       ELSE /\ requests' = [requests EXCEPT ![r].pc = "log"]
            /\ UNCHANGED task_registry
    /\ UNCHANGED <<supervision, deployment, hist, asyncio_tasks, lock, coroutines, connection>>

\* ------------------------------------------------------------ specification
\* Two RunnerService instances serve the same store.
Next ==
    \/ \E strategy_id \in StrategyIds : create_run(strategy_id, MaxRacedRuns)
    \/ \E run_id \in RunIds : stop_run_select(run_id)
    \/ \E run_id \in RunIds : stop_run_update(run_id)
    \/ \E pid \in Pids : update_heartbeat(pid)
    \/ \E run_id \in RunIds : HeartbeatAges(run_id)
    \/ \E pid \in Pids, rc \in ExitCodes : ProcessExits(pid, rc)
    \/ \E s \in DOMAIN sup : GetPendingRuns(s)
    \/ \E s \in DOMAIN sup : ClaimRun(s)
    \/ \E s \in DOMAIN sup : LaunchStrategy(s)
    \/ \E s \in DOMAIN sup : BeginMonitor(s)
    \/ \E s \in DOMAIN sup : MonitorProcesses(s)
    \/ \E s \in DOMAIN sup : BeginCheckHeartbeats(s)
    \/ \E s \in DOMAIN sup : CheckHeartbeats(s)
    \/ \E s \in DOMAIN sup : EndTick(s)
    \/ \E s \in DOMAIN sup : KeyboardInterrupt(s)
    \/ \E s \in DOMAIN sup : StopStrategySignal(s)
    \/ \E s \in DOMAIN sup : WaitForProcess(s)
    \/ \E s \in DOMAIN sup : StopStrategyWait(s)
    \/ \E s \in DOMAIN sup : ServiceStopped(s)
    \/ \E s \in DOMAIN sup : Crash(s)
    \/ \E s \in DOMAIN sup : Restart(s)

Spec == Init /\ [][Next]_vars

\* One RunnerService instance at a time (the deployed topology), killed and
\* started again at any moment.
NextSolo ==
    \/ \E strategy_id \in StrategyIds : create_run(strategy_id, MaxRuns)
    \/ \E run_id \in RunIds : stop_run_select(run_id)
    \/ \E run_id \in RunIds : stop_run_update(run_id)
    \/ \E pid \in Pids : update_heartbeat(pid)
    \/ \E run_id \in RunIds : HeartbeatAges(run_id)
    \/ \E pid \in Pids, rc \in ExitCodes : ProcessExits(pid, rc)
    \/ \E s \in DOMAIN sup : GetPendingRuns(s)
    \/ \E s \in DOMAIN sup : ClaimRun(s)
    \/ \E s \in DOMAIN sup : LaunchStrategy(s)
    \/ \E s \in DOMAIN sup : BeginMonitor(s)
    \/ \E s \in DOMAIN sup : MonitorProcesses(s)
    \/ \E s \in DOMAIN sup : BeginCheckHeartbeats(s)
    \/ \E s \in DOMAIN sup : CheckHeartbeats(s)
    \/ \E s \in DOMAIN sup : EndTick(s)
    \/ \E s \in DOMAIN sup : Crash(s)
    \/ \E s \in DOMAIN sup : Restart(s)

SpecSolo == InitSolo /\ [][NextSolo]_vars

\* while self.running: one tick after the other.  A step of the loop of
\* supervisor s; the loop never waits for anything but its own sleep.
LoopStep(s) ==
    \/ GetPendingRuns(s)
    \/ ClaimRun(s)
    \/ LaunchStrategy(s)
    \/ BeginMonitor(s)
    \/ MonitorProcesses(s)
    \/ BeginCheckHeartbeats(s)
    \/ CheckHeartbeats(s)
    \/ EndTick(s)

\* One RunnerService instance and one run row, for what the loop brings about
\* in the long run: the loop of a living supervisor goes on taking steps and
\* time passes (a heartbeat that is not renewed becomes stale); the workload,
\* the submitter and the operator need not do anything.
NextLive ==
    \/ \E strategy_id \in StrategyIds : create_run(strategy_id, MaxRacedRuns)
    \/ \E run_id \in RunIds : stop_run_select(run_id)
    \/ \E run_id \in RunIds : stop_run_update(run_id)
    \/ \E pid \in Pids : update_heartbeat(pid)
    \/ \E run_id \in RunIds : HeartbeatAges(run_id)
    \/ \E run_id \in RunIds : StartupWindowElapses(run_id)
    \/ \E pid \in Pids, rc \in ExitCodes : ProcessExits(pid, rc)
    \/ \E s \in DOMAIN sup : GetPendingRuns(s)
    \/ \E s \in DOMAIN sup : ClaimRun(s)
    \/ \E s \in DOMAIN sup : LaunchStrategy(s)
    \/ \E s \in DOMAIN sup : BeginMonitor(s)
    \/ \E s \in DOMAIN sup : MonitorProcesses(s)
    \/ \E s \in DOMAIN sup : BeginCheckHeartbeats(s)
    \/ \E s \in DOMAIN sup : CheckHeartbeats(s)
    \/ \E s \in DOMAIN sup : EndTick(s)
    \/ \E s \in DOMAIN sup : Crash(s)
    \/ \E s \in DOMAIN sup : Restart(s)

SpecLive ==
    /\ InitLive
    /\ [][NextLive]_vars
    /\ WF_vars(LoopStep(1))
    /\ \A run_id \in RunIds : WF_vars(HeartbeatAges(run_id))

\* One RunnerService instance that is shut down and started again, one run
\* row, and stop requests for every run id, those without a row included.
NextStop ==
    \/ \E strategy_id \in StrategyIds : create_run(strategy_id, MaxRacedRuns)
    \/ \E run_id \in RunIds : stop_run_select(run_id)
    \/ \E run_id \in RunIds : stop_run_refused(run_id)
    \/ \E run_id \in RunIds : stop_run_update(run_id)
    \/ \E pid \in Pids : update_heartbeat(pid)
    \/ \E run_id \in RunIds : HeartbeatAges(run_id)
    \/ \E pid \in Pids, rc \in ExitCodes : ProcessExits(pid, rc)
    \/ \E s \in DOMAIN sup : GetPendingRuns(s)
    \/ \E s \in DOMAIN sup : ClaimRun(s)
    \/ \E s \in DOMAIN sup : LaunchStrategy(s)
    \/ \E s \in DOMAIN sup : BeginMonitor(s)
    \/ \E s \in DOMAIN sup : MonitorProcesses(s)
    \/ \E s \in DOMAIN sup : BeginCheckHeartbeats(s)
    \/ \E s \in DOMAIN sup : CheckHeartbeats(s)
    \/ \E s \in DOMAIN sup : EndTick(s)
    \/ \E s \in DOMAIN sup : KeyboardInterrupt(s)
    \/ \E s \in DOMAIN sup : StopStrategySignal(s)
    \/ \E s \in DOMAIN sup : WaitForProcess(s)
    \/ \E s \in DOMAIN sup : StopStrategyWait(s)
    \/ \E s \in DOMAIN sup : ServiceStopped(s)
    \/ \E s \in DOMAIN sup : Restart(s)

SpecStop == InitSolo /\ [][NextStop]_vars

\* One RunnerService instance, one run row, and delete requests.
NextDelete ==
    \/ \E strategy_id \in StrategyIds : create_run(strategy_id, MaxRacedRuns)
    \/ \E run_id \in RunIds : delete_run_select(run_id)
    \/ \E run_id \in RunIds : delete_run_delete(run_id)
    \/ \E pid \in Pids : update_heartbeat(pid)
    \/ \E run_id \in RunIds : HeartbeatAges(run_id)
    \/ \E pid \in Pids, rc \in ExitCodes : ProcessExits(pid, rc)
    \/ \E s \in DOMAIN sup : GetPendingRuns(s)
    \/ \E s \in DOMAIN sup : ClaimRun(s)
    \/ \E s \in DOMAIN sup : LaunchStrategy(s)
    \/ \E s \in DOMAIN sup : BeginMonitor(s)
    \/ \E s \in DOMAIN sup : MonitorProcesses(s)
    \/ \E s \in DOMAIN sup : BeginCheckHeartbeats(s)
    \/ \E s \in DOMAIN sup : CheckHeartbeats(s)
    \/ \E s \in DOMAIN sup : EndTick(s)

SpecDelete == InitSolo /\ [][NextDelete]_vars

\* One RunnerService instance that is shut down, and the workload as
\* strategies/runner.py codes it: it installs its handler, sends heartbeats
\* and ends only when it is told to.
NextWorkload ==
    \/ \E strategy_id \in StrategyIds : create_run(strategy_id, MaxRacedRuns)
    \/ \E pid \in Pids : main_installs_handler(pid)
    \/ \E pid \in Pids : update_heartbeat(pid)
    \/ \E pid \in Pids : signal_handler(pid)
    \/ \E pid \in Pids : TerminatedBySignal(pid)
    \/ \E pid \in Pids : main_returns(pid)
    \/ \E run_id \in RunIds : HeartbeatAges(run_id)
    \/ \E s \in DOMAIN sup : GetPendingRuns(s)
    \/ \E s \in DOMAIN sup : ClaimRun(s)
    \/ \E s \in DOMAIN sup : LaunchStrategy(s)
    \/ \E s \in DOMAIN sup : BeginMonitor(s)
    \/ \E s \in DOMAIN sup : MonitorProcesses(s)
    \/ \E s \in DOMAIN sup : BeginCheckHeartbeats(s)
    \/ \E s \in DOMAIN sup : CheckHeartbeats(s)
    \/ \E s \in DOMAIN sup : EndTick(s)
    \/ \E s \in DOMAIN sup : KeyboardInterrupt(s)
    \/ \E s \in DOMAIN sup : StopStrategySignal(s)
    \/ \E s \in DOMAIN sup : WaitForWorkload(s)
    \/ \E s \in DOMAIN sup : StopStrategyWait(s)
    \/ \E s \in DOMAIN sup : ServiceStopped(s)

SpecWorkload == InitSolo /\ [][NextWorkload]_vars

\* The TaskRegistry of the embedded backend on its own: tasks are created and
\* finish, and the registry's methods are called with every sid.
NextRegistry ==
    \/ CreateTask
    \/ \E task \in 1..MaxTasks : TaskFinishes(task)
    \/ \E sid \in Sids, task \in 1..MaxTasks, task_info \in TaskInfos :
           Add(sid, task, task_info)
    \/ \E sid \in Sids : Log(sid, "line")
    \/ \E sid \in Sids : Cleanup(sid)

SpecRegistry == InitSolo /\ [][NextRegistry]_vars

\* The embedded backend: run and stop requests of the strategies router and
\* the run_strategy tasks they start, on one asyncio event loop.  A step is
\* what one coroutine does between two suspensions.
NextBackend ==
    \/ \E sid \in Sids : run_strategy_api(sid)
    \/ \E r \in 1..MaxRequests : start_strategy(r)
    \/ \E sid \in Sids : stop_strategy_api(sid)
    \/ \E task \in 1..MaxTasks : run_strategy_starts(task)
    \/ \E task \in 1..MaxTasks :
           \E line \in {"Strategy completed successfully", "Strategy error"} :
               run_strategy_resumes(task, line)
    \/ \E task \in 1..MaxTasks : CancelledError(task)
    \/ \E r \in 1..MaxRequests : cancel_resumes(r)

SpecBackend == InitSolo /\ [][NextBackend]_vars

\* The managed IB connection: ensure_connection is called with either mode,
\* the manager is started and stopped, and the connection may be lost.
NextConnection ==
    \/ \E mode \in {"paper", "real"}, listening \in BOOLEAN, answers \in BOOLEAN :
           ensure_connection(mode, listening, answers)
    \/ connection_manager_start
    \/ connection_manager_stop
    \/ ConnectionLost

SpecConnection == InitSolo /\ [][NextConnection]_vars

\* Deployments: deploy requests with every choice of accounts, and the status
\* that run_strategy reports when its task ends.
NextDeploy ==
    \/ \E sid \in Sids, tickers \in {"", "SPY"}, selected_accounts \in SUBSET Accounts,
          existing \in 0..MaxDeployments, connected \in ConnectionChecks,
          started \in {"started", "not loaded", "raised"} :
           deploy_strategy_api(sid, tickers, selected_accounts, existing, connected, started)
    \/ \E deployment_id \in 1..MaxDeployments,
          status \in {"completed", "cancelled", "failed"} :
           update_deployment_status(deployment_id, status)

SpecDeploy == InitSolo /\ [][NextDeploy]_vars

\* ------------------------------------------------------------------- claims
\* C1: for every strategy id at most one run has a status in
\* {starting, running, stopping}.
C1_AtMostOneActivePerStrategy ==
    \A strategy_id \in StrategyIds :
        Cardinality({r \in DOMAIN runs : /\ runs[r].strategy_id = strategy_id
                                         /\ runs[r].status \in Active}) <= 1

\* C2: of the claim_run calls made on one run, exactly one returns True and
\* every other returns False: no call is left by an exception, at most one
\* returns True, and a call returns False only when one has returned True.
C2_ExactlyOneClaimReturnsTrue ==
    \A r \in RunIds :
        /\ hist.claims[r].raised = 0
        /\ hist.claims[r].true <= 1
        /\ hist.claims[r].false > 0 => hist.claims[r].true = 1

\* C3: launch_strategy starts at most one process for a run id, whichever
\* supervisor instances tick and whichever ticks are aborted.
C3_NoRunLaunchedTwice ==
    \A r \in RunIds : hist.launches[r] <= 1

\* A run has been launched and a later claim_run on it, by an instance that
\* still held it in its pending list, returned False.
C3_Witness ==
    \E r \in RunIds : hist.launches[r] = 1 /\ hist.claims[r].false > 0

\* C4: every change of a run's status follows one of the listed edges.
Edges ==
    {<<"pending", "starting">>, <<"starting", "running">>, <<"starting", "error">>,
     <<"running", "stopping">>, <<"running", "stopped">>, <<"running", "error">>,
     <<"running", "dead">>, <<"stopping", "stopped">>, <<"stopping", "dead">>}

C4_OnlyListedEdges ==
    [][\A r \in DOMAIN runs :
          \/ runs'[r].status = runs[r].status
          \/ <<runs[r].status, runs'[r].status>> \in Edges]_vars

\* C5: a run whose status is running has been starting before; as no step
\* writes pending, this is also that running is never written over pending.
C5_RunningOnlyAfterStarting ==
    \A r \in DOMAIN runs : runs[r].status = "running" => r \in hist.was_starting

\* A launched run is running.
C5_Witness ==
    \E r \in DOMAIN runs : runs[r].status = "running" /\ hist.launches[r] = 1

\* C6: once a run's status is stopped, error or dead, no step changes it.
C6_TerminalAbsorbing ==
    [][\A r \in DOMAIN runs :
          runs[r].status \in Terminal => runs'[r].status = runs[r].status]_vars

\* C7: a run whose process monitor_processes found ended with return code 0,
\* and for which no stop was requested, has status stopped and exit_code 0.
C7_ExitZeroIsStopped ==
    \A r \in DOMAIN runs :
        (hist.reported[r] = Some(0) /\ r \notin hist.stop_requested)
            => (runs[r].status = "stopped" /\ runs[r].exit_code = Some(0))

\* monitor_processes has read return code 0 of a run nobody asked to stop.
C7_Witness ==
    \E r \in DOMAIN runs :
        /\ hist.reported[r] = Some(0)
        /\ r \notin hist.stop_requested
        /\ runs[r].status = "stopped"

\* The step is an iteration of supervisor s's monitor_processes loop that
\* finds the process of the run at the head of its list ended.
MonitorObserves(s) ==
    /\ sup[s].pc = "monitor"
    /\ sup[s].items # << >>
    /\ os[Pid(s, Head(sup[s].items))].state # "alive"
    /\ \/ sup'[s].pc = "tick"
       \/ sup'[s].pc = "monitor" /\ sup'[s].items = Tail(sup[s].items)

\* C8: when monitor_processes finds a tracked process ended, it sets the run's
\* status to stopped if the return code is 0 and to error otherwise, and it
\* records stopped_at.
C8_MonitorStatusByExitCode ==
    [][\A s \in DOMAIN sup :
          MonitorObserves(s) =>
              LET r == Head(sup[s].items)
                  exit_code == os[Pid(s, r)].rc[1]
              IN /\ runs'[r].status = IF exit_code = 0 THEN "stopped" ELSE "error"
                 /\ runs'[r].stopped_at # NULL]_vars

\* The step is a launch_strategy call of supervisor s in which Popen raised.
LaunchFails(s) ==
    /\ sup[s].pc = "launch"
    /\ sup'[s].pc \in {"claim", "tick"}
    /\ hist'.launches = hist.launches

\* C9: a launch_strategy call in which starting the process fails ends with
\* the run's status error, exit_code 1 and exactly one error event appended.
C9_LaunchFailureIsError ==
    [][\A s \in DOMAIN sup :
          LaunchFails(s) =>
              LET r == Head(sup[s].pending_runs)
              IN /\ runs'[r].status = "error"
                 /\ runs'[r].exit_code = Some(1)
                 /\ run_events'[r] = Append(run_events[r],
                        [level |-> "error", message |-> "launch_failed"])]_vars

\* C10: a running run whose heartbeat was stale or missing and whose pid had
\* vanished when a tick began is dead with exit_code -1 when that tick ends
\* (runs a stop was requested for set aside).
C10_DeadWithinOneTick ==
    \A s \in DOMAIN sup :
        sup[s].pc = "tick" =>
            \A r \in hist.due[s] \ hist.stop_requested :
                runs[r].status = "dead" /\ runs[r].exit_code = Some(-1)

\* The step is an iteration of supervisor s's check_heartbeats loop over a
\* fetched row whose pid is in the process table.
HeartbeatFindsAlive(s) ==
    /\ sup[s].pc = "heartbeats"
    /\ sup[s].stale_runs # << >>
    /\ Head(sup[s].stale_runs)[2] # NULL
    /\ pid_exists(os, Head(sup[s].stale_runs)[2][1])
    /\ sup'[s].pc \in {"heartbeats", "tick"}
    /\ sup'[s] # sup[s]

\* C11: no step writes dead to a run whose stored pid is in the process
\* table, and a check_heartbeats iteration over a stale row whose pid exists
\* leaves the row and the supervisor's two dicts as they are.
C11_AliveIsNeverMarkedDead ==
    [][/\ \A r \in DOMAIN runs :
             (runs[r].status # "dead" /\ runs'[r].status = "dead")
                 => (runs[r].pid # NULL /\ ~pid_exists(os, runs[r].pid[1]))
       /\ \A s \in DOMAIN sup :
             HeartbeatFindsAlive(s) =>
                 LET r == Head(sup[s].stale_runs)[1]
                 IN /\ runs'[r] = runs[r]
                    /\ sup'[s].running_processes = sup[s].running_processes
                    /\ sup'[s].process_info = sup[s].process_info]_vars

\* check_heartbeats has passed over a run with a stale or missing heartbeat
\* whose process exists, and the run is still running and tracked.
C11_Witness ==
    \E s \in DOMAIN sup : \E r \in hist.spared[s] :
        /\ sup[s].pc = "heartbeats"
        /\ runs[r].status = "running"
        /\ Stale(runs[r])
        /\ Has(sup[s].running_processes, r)

\* C12: when the supervisor is never stopped and goes on completing ticks, a
\* run whose status a stop request has set to stopping reaches stopped, error
\* or dead.
C12_StopRequestTerminates ==
    ([](sup[1].pc # "exited") /\ []<><<EndTick(1)>>_vars) =>
        \A r \in RunIds :
            (r \in DOMAIN runs /\ runs[r].status = "stopping")
                ~> (r \in DOMAIN runs /\ runs[r].status \in Terminal)

\* The process of the run supervisor s is stopping.
StopPid(s) == Pid(s, Head(sup[s].stop_list))

\* The step kills process p with SIGKILL.
ForceKilled(p) == os[p].state = "alive" /\ os'[p].state = "gone" /\ os'[p].rc = Some(-9)

\* The step is the second half of a stop_strategy call of supervisor s whose
\* wait ended with the process still running.
GraceExceeded(s) ==
    /\ sup[s].pc = "stop_wait"
    /\ os[StopPid(s)].state = "alive"
    /\ StopStrategyWait(s)

\* C13: a process is force-killed only by a stop_strategy call that has sent
\* it the termination signal and has waited the whole grace period; a process
\* that has ended is not killed; the wait for a running process ends only when
\* the grace period has passed, and the call then kills the process and gives
\* the run a final status.
C13_KillOnlyAfterGrace ==
    [][/\ \A p \in DOMAIN os :
             /\ ForceKilled(p) =>
                    /\ os[p].sigterm
                    /\ os[p].parent \in DOMAIN sup
                    /\ sup[os[p].parent].pc = "stop_wait"
                    /\ StopPid(os[p].parent) = p
                    /\ sup[os[p].parent].waited = grace_period
             /\ os[p].state # "alive" => os'[p].rc = os[p].rc
       /\ \A s \in DOMAIN sup :
             GraceExceeded(s) =>
                 /\ sup[s].waited = grace_period
                 /\ ForceKilled(StopPid(s))
                 /\ runs'[Head(sup[s].stop_list)].status \in Terminal]_vars

\* The step is the second half of a stop_strategy call of supervisor s whose
\* wait ended because the process had ended.
GracefulExit(s) ==
    /\ sup[s].pc = "stop_wait"
    /\ os[StopPid(s)].state # "alive"
    /\ StopStrategyWait(s)

\* C14: stop_strategy ends with status stopped and the process's return code
\* when the process ended within the grace period, and with status dead or
\* error and exit_code -1 when it killed the process.
C14_StopStatusReflectsPath ==
    [][\A s \in DOMAIN sup :
          LET r == Head(sup[s].stop_list)
          IN /\ GracefulExit(s) =>
                    /\ runs'[r].status = "stopped"
                    /\ runs'[r].exit_code = os[StopPid(s)].rc
             /\ (GraceExceeded(s) /\ ForceKilled(StopPid(s))) =>
                    /\ runs'[r].status \in {"dead", "error"}
                    /\ runs'[r].exit_code = Some(-1)]_vars

\* C15: a stop_run request that reads a terminal status, and a stop_strategy
\* call for a run whose status is terminal, leave the run's status, exit_code
\* and stopped_at as they are and append no event.
C15_StopOfTerminalChangesNothing ==
    [][/\ \A r \in DOMAIN runs :
             (runs[r].status \in Terminal /\ stop_run_refused(r)) =>
                 (runs' = runs /\ run_events' = run_events)
       /\ \A r \in DOMAIN runs :
             runs[r].status \in Terminal => ~stop_run_select(r)
       /\ \A s \in DOMAIN sup :
             (/\ sup[s].pc = "cleanup"
              /\ sup[s].stop_list # << >>
              /\ runs[Head(sup[s].stop_list)].status \in Terminal
              /\ StopStrategySignal(s)) =>
                 LET r == Head(sup[s].stop_list)
                 IN /\ runs'[r].status = runs[r].status
                    /\ runs'[r].exit_code = runs[r].exit_code
                    /\ runs'[r].stopped_at = runs[r].stopped_at
                    /\ run_events'[r] = run_events[r]]_vars

\* C16: stop_run's reply to a request for a run whose status is terminal is a
\* success (200), not an error.
C16_StopOfTerminalSucceeds ==
    \A r \in DOMAIN runs :
        (/\ hist.stop_reply # NULL
         /\ hist.stop_reply[1].run_id = r
         /\ hist.stop_reply[1].read \in Terminal) => hist.stop_reply[1].code = 200

\* C17: a stop_run request for a run id without a row is not accepted; it is
\* answered 404 and changes no run and no event.
C17_StopOfMissingRunIsNotFound ==
    [][\A r \in RunIds \ DOMAIN runs :
          /\ ~stop_run_select(r)
          /\ stop_run_refused(r) =>
                 /\ hist'.stop_reply[1].code = 404
                 /\ runs' = runs
                 /\ run_events' = run_events
                 /\ stop_reads' = stop_reads]_vars

\* stop_run has answered 404 to a request for a run id that has no row, while
\* another run exists.
C17_Witness ==
    /\ hist.stop_reply # NULL
    /\ hist.stop_reply[1].read = "none"
    /\ hist.stop_reply[1].code = 404
    /\ hist.stop_reply[1].run_id \notin DOMAIN runs
    /\ DOMAIN runs # {}

\* C18: when the supervisor started again is never stopped and goes on
\* completing ticks, a run that was starting, running or stopping at the
\* restart and whose process no longer exists reaches stopped, error or dead.
C18_LeftBehindRunsTerminate ==
    ([]<><<EndTick(1)>>_vars /\ <>[](sup[1].pc # "exited")) =>
        \A r \in RunIds :
            (r \in hist.left_behind /\ ProcessGone(r))
                ~> (r \in DOMAIN runs /\ runs[r].status \in Terminal)

\* C19: a run whose status is stopped, error or dead has no stored pid.
C19_TerminalRunHasNoPid ==
    \A r \in DOMAIN runs : runs[r].status \in Terminal => runs[r].pid = NULL

\* C20: a run whose status is pending, starting, running or stopping has no
\* exit_code, and a run whose status is stopped, error or dead has one.
C20_ExitCodeIffTerminal ==
    \A r \in DOMAIN runs : (runs[r].status \in Terminal) <=> (runs[r].exit_code # NULL)

\* The step is a statement of the HTTP layer (create_run, stop_run,
\* delete_run) or a heartbeat write of a workload.
HttpOrHeartbeatStep ==
    \/ \E strategy_id \in StrategyIds, limit \in {MaxRuns, MaxRacedRuns} :
           create_run(strategy_id, limit)
    \/ \E run_id \in RunIds :
           \/ stop_run_select(run_id)
           \/ stop_run_refused(run_id)
           \/ stop_run_update(run_id)
           \/ delete_run_select(run_id)
           \/ delete_run_delete(run_id)
    \/ \E pid \in Pids : update_heartbeat(pid)

\* C21: no statement of the HTTP layer and no heartbeat write changes the
\* status of a run that exists before and after it.
C21_OnlySupervisorWritesStatus ==
    [][HttpOrHeartbeatStep =>
          \A r \in DOMAIN runs \cap DOMAIN runs' : runs'[r].status = runs[r].status]_vars

\* C22: a run whose status is error or dead has an error-level event in its
\* event log (the event of a fatal outcome is appended before the status is
\* written).
C22_FatalStatusHasErrorEvent ==
    \A r \in DOMAIN runs :
        runs[r].status \in {"error", "dead"} =>
            \E i \in 1..Len(run_events[r]) : run_events[r][i].level = "error"

\* The step is one in which an exception leaves the tick of supervisor s.
TickRaises(s) ==
    /\ sup[s].pc \in {"claim", "launch", "monitor", "heartbeats"}
    /\ sup'[s].pc = "tick"
    /\ ~EndTick(s)

\* The run supervisor s is handling: the one it claims or launches, polls, or
\* checks the heartbeat of.
Handled(s) ==
    IF sup[s].pc \in {"claim", "launch"} THEN Head(sup[s].pending_runs)
    ELSE IF sup[s].pc = "monitor" THEN Head(sup[s].items)
    ELSE Head(sup[s].stale_runs)[1]

\* The other runs that supervisor s tracks and that its current tick has not
\* yet both polled and checked: before check_heartbeats is entered all of
\* them, inside it those still waiting in its list.
NotYetHandled(s) ==
    LET tracked == {sup[s].running_processes[i] :
                        i \in 1..Len(sup[s].running_processes)} \ {Handled(s)}
        waiting == {sup[s].stale_runs[i][1] : i \in 2..Len(sup[s].stale_runs)}
    IN IF sup[s].pc = "heartbeats" THEN tracked \cap waiting ELSE tracked

\* C23: when an exception is raised while a tick handles one run, every other
\* run the supervisor tracks has been polled and checked in that tick (the
\* tick ends with the exception, so none is left to be handled).
C23_OtherRunsStillHandled ==
    [][\A s \in DOMAIN sup : TickRaises(s) => NotYetHandled(s) = {}]_vars

\* The process that supervisor s started for run r has ended and s still
\* tracks the run.
ExitPending(s, r) ==
    /\ Has(sup[s].running_processes, r)
    /\ os[Pid(s, r)].state # "alive"

\* C24: a tick that a failing store call ends leaves the supervisor running
\* with every run it tracked still in running_processes and process_info; and
\* when the supervisor is not stopped and goes on completing ticks, the exit of
\* a process it started and tracks is recorded as a terminal status of the run.
C24_TrackingSurvivesFailedTick ==
    /\ [][\A s \in DOMAIN sup :
             TickRaises(s) =>
                 /\ \A i \in 1..Len(sup[s].running_processes) :
                        Has(sup'[s].running_processes, sup[s].running_processes[i])
                 /\ sup[s].process_info \subseteq sup'[s].process_info]_vars
    /\ ([](sup[1].pc # "exited") /\ []<><<EndTick(1)>>_vars) =>
           \A r \in RunIds :
               ExitPending(1, r) ~> (r \in DOMAIN runs /\ runs[r].status \in Terminal)

\* A launch_strategy call started the process of a run and was left by an
\* exception (neither of its events is in the log), and a later tick of the
\* same supervisor has recorded the exit of the process.
C24_Witness ==
    \E r \in DOMAIN runs :
        /\ hist.launches[r] = 1
        /\ \A i \in 1..Len(run_events[r]) :
               run_events[r][i].message \notin {"started", "launch_failed"}
        /\ hist.reported[r] # NULL
        /\ runs[r].status = "stopped"
        /\ ~Has(sup[1].running_processes, r)

\* The step ends the process of supervisor s after its loop has ended, while
\* it stops the runs it tracked.
ShutdownEnds(s) ==
    /\ sup[s].pc \in {"cleanup", "stop_wait"}
    /\ sup'[s].pc = "exited"

\* The runs whose process supervisor s has started since it was started.
LaunchedBy(s) ==
    {r \in RunIds : Pid(s, r) \in DOMAIN os /\ os[Pid(s, r)].parent = s}

\* C25: when the supervisor exits after its loop has ended, stop_strategy has
\* been called for every run that was tracked (none is left in the list of
\* runs to stop, whatever happened while another was stopped), and no run it
\* launched has status running or stopping.
C25_ShutdownStopsEveryRun ==
    [][\A s \in DOMAIN sup :
          ShutdownEnds(s) =>
              /\ Len(sup[s].stop_list) <= 1
              /\ \A r \in LaunchedBy(s) \cap DOMAIN runs' :
                     runs'[r].status \notin {"running", "stopping"}]_vars

\* C26: a step removes a run's row only when the run's status is stopped,
\* error or dead, and every running process belongs to a run that has a row.
C26_DeletedOnlyWhenTerminal ==
    /\ [][\A r \in DOMAIN runs :
             r \notin DOMAIN runs' => runs[r].status \in Terminal]_vars
    /\ [](\A p \in DOMAIN os : os[p].state = "alive" => os[p].run \in DOMAIN runs)

\* The two halves of C26 on their own.
C26_RemovedRowWasTerminal ==
    [][\A r \in DOMAIN runs : r \notin DOMAIN runs' => runs[r].status \in Terminal]_vars

C26_RunningProcessHasRow ==
    \A p \in DOMAIN os : os[p].state = "alive" => os[p].run \in DOMAIN runs

\* The log of run r holds an event with message m at position i.
EventAt(r, i, m) == i \in 1..Len(run_events[r]) /\ run_events[r][i].message = m

\* C27: a run whose launch_strategy call returned the pid (its launch event
\* is in the log) and which monitor_processes has finalized as stopped has
\* stopped_at and exit_code set and, after the launch event, a completion
\* event in its log.
C27_LaunchThenCompletionEvent ==
    \A r \in DOMAIN runs :
        (/\ \E i \in 1..Len(run_events[r]) : EventAt(r, i, "started")
         /\ hist.reported[r] # NULL
         /\ runs[r].status = "stopped") =>
            /\ runs[r].stopped_at # NULL
            /\ runs[r].exit_code # NULL
            /\ \E i, j \in 1..Len(run_events[r]) :
                   /\ i < j
                   /\ EventAt(r, i, "started")
                   /\ EventAt(r, j, "completed") \/ EventAt(r, j, "failed")

\* C28: no step writes dead to a running run that has never sent a heartbeat
\* while its startup window has not passed, whether or not its pid is in the
\* process table.
C28_NoDeadInsideStartupWindow ==
    [][\A r \in DOMAIN runs :
          (/\ runs[r].status = "running"
           /\ runs[r].last_heartbeat = NULL
           /\ r \in hist.in_startup) => runs'[r].status # "dead"]_vars

\* C29: after add(sid, task, info) with a task that is not done,
\* is_running(sid) is true, get_task_info(sid) is info and
\* get_all_running_tasks() maps sid to info; is_running(sid) is false for a sid
\* the registry holds no task for and for a sid whose registered task is done.
C29_RegistryQueriesAfterAdd ==
    /\ [][\A sid \in Sids, task \in DOMAIN asyncio_tasks, info \in TaskInfos :
             (Add(sid, task, info) /\ ~done(asyncio_tasks, task)) =>
                 /\ is_running(task_registry', asyncio_tasks', sid)
                 /\ get_task_info(task_registry', sid) = Some(info)
                 /\ sid \in DOMAIN get_all_running_tasks(task_registry', asyncio_tasks')
                 /\ get_all_running_tasks(task_registry', asyncio_tasks')[sid] = info]_vars
    /\ [](\A sid \in Sids :
             Held(task_registry, asyncio_tasks, sid) \in {"unknown", "done"}
                 => ~is_running(task_registry, asyncio_tasks, sid))

\* The registry holds a task that is not done for one sid and a task that is
\* done for the other, the two with different task_info.
C29_Witness ==
    \E sid, other \in Sids :
        /\ is_running(task_registry, asyncio_tasks, sid)
        /\ Held(task_registry, asyncio_tasks, other) = "done"
        /\ get_task_info(task_registry, sid) # get_task_info(task_registry, other)
        /\ DOMAIN get_all_running_tasks(task_registry, asyncio_tasks) = {sid}

\* C30: cleanup(sid) removes the tasks and task_info entries of sid when the
\* registry holds a task for sid that is done, and only then: for a sid whose
\* task is not done and for a sid it holds no task for, tasks and task_info
\* stay as they are.  The entries of the other sids and the logs stay as they
\* are in every case.
C30_CleanupRemovesOnlyDoneTask ==
    [][\A sid \in Sids :
          Cleanup(sid) =>
              /\ IF Held(task_registry, asyncio_tasks, sid) = "done"
                 THEN /\ sid \notin DOMAIN task_registry'.tasks
                      /\ sid \notin DOMAIN task_registry'.task_info
                 ELSE /\ task_registry'.tasks = task_registry.tasks
                      /\ task_registry'.task_info = task_registry.task_info
              /\ \A other \in Sids \ {sid} :
                     /\ DictGet(task_registry'.tasks, other)
                            = DictGet(task_registry.tasks, other)
                     /\ DictGet(task_registry'.task_info, other)
                            = DictGet(task_registry.task_info, other)
              /\ task_registry'.logs = task_registry.logs]_vars

\* cleanup has just been called for a sid whose task was done and has removed
\* its entries, while the other sid keeps its running task and a log exists.
C30_Witness ==
    \E sid, other \in Sids :
        /\ hist.cleanup_call = Some([sid |-> sid, held |-> "done"])
        /\ sid \notin DOMAIN task_registry.tasks
        /\ sid \notin DOMAIN task_registry.task_info
        /\ is_running(task_registry, asyncio_tasks, other)
        /\ get_logs(task_registry, sid) # << >>

\* cleanup has been called for a sid whose task was not done, and the registry
\* still holds that task.
C30_WitnessRunning ==
    \E sid \in Sids :
        /\ hist.cleanup_call = Some([sid |-> sid, held |-> "running"])
        /\ sid \in DOMAIN task_registry.tasks

\* C35: when a supervisor is between two ticks or has ended, no run is
\* starting: every run its tick claimed was launched in that tick and is
\* running or error (or beyond).
C35_NoRunLeftStarting ==
    \A s \in DOMAIN sup :
        sup[s].pc \in {"tick", "exited"} =>
            \A r \in DOMAIN runs : runs[r].status # "starting"

\* The step is a launch_strategy call of supervisor s that ends with the run
\* marked error.
LaunchMarksError(s) ==
    /\ sup[s].pc = "launch"
    /\ sup'[s].pc \in {"claim", "tick"}
    /\ Head(sup[s].pending_runs) \in DOMAIN runs'
    /\ runs'[Head(sup[s].pending_runs)].status = "error"

\* The run ids supervisor s holds in running_processes.
Tracked(s) == {sup[s].running_processes[i] : i \in 1..Len(sup[s].running_processes)}

\* The three parts of C36.
C36_ErrorMeansNotStarted ==
    [][\A s \in DOMAIN sup :
          LaunchMarksError(s) =>
              /\ hist'.launches = hist.launches
              /\ Head(sup[s].pending_runs) \notin Tracked(s)']_vars

C36_TrackedIsRunningOrStopping ==
    \A s \in DOMAIN sup : \A r \in Tracked(s) :
        r \in DOMAIN runs /\ runs[r].status \in {"running", "stopping"}

C36_DictsHoldSameRuns ==
    \A s \in DOMAIN sup : Tracked(s) = sup[s].process_info

\* C36: a launch_strategy call that marks the run error has started no
\* process and leaves the run out of running_processes; every run in
\* running_processes is running or stopping in the store; running_processes
\* and process_info hold the same run ids.
C36_TrackingAgreesWithStore ==
    /\ C36_ErrorMeansNotStarted
    /\ []C36_TrackedIsRunningOrStopping
    /\ []C36_DictsHoldSameRuns

\* C38: the wait of a stop_strategy call, which follows the termination
\* signal, ends within one iteration of the workload's loop with the workload
\* ended by itself (its stopping flag set, return code 0), not killed, and the
\* call finalizes the run as stopped with exit_code 0.
C38_SignalledWorkloadStopsCleanly ==
    [][\A s \in DOMAIN sup :
          (sup[s].pc = "stop_wait" /\ StopStrategyWait(s)) =>
              LET r == Head(sup[s].stop_list)
              IN /\ sup[s].waited <= loop_iteration
                 /\ os[StopPid(s)].state # "alive"
                 /\ os[StopPid(s)].main = "stopping"
                 /\ os[StopPid(s)].rc = Some(0)
                 /\ ~ForceKilled(StopPid(s))
                 /\ runs'[r].status = "stopped"
                 /\ runs'[r].exit_code = Some(0)]_vars

\* The part of C38 that is the workload's own: once signalled it ends by
\* itself within one iteration, with return code 0 when its handler was
\* installed.
C38_HandlerEndsWorkload ==
    [][\A s \in DOMAIN sup :
          (sup[s].pc = "stop_wait" /\ StopStrategyWait(s)) =>
              /\ sup[s].waited <= loop_iteration
              /\ os[StopPid(s)].state # "alive"
              /\ os[StopPid(s)].main = "stopping" => os[StopPid(s)].rc = Some(0)]_vars

\* The rows of runs without their last_heartbeat column.
OtherColumns(rs) ==
    [r \in DOMAIN rs |->
        [c \in DOMAIN rs[r] \ {"last_heartbeat"} |-> rs[r][c]]]

Unfinished(sid) ==
    {t \in DOMAIN coroutines : coroutines[t].sid = sid /\ ~done(asyncio_tasks, t)}

\* A waiter that can never go on: cancel call r holds the lock and either
\* awaits a task that waits for the lock, or waits for the lock itself.
WaitsForever(r) ==
    /\ lock = Some(r)
    /\ \/ requests[r].pc = "log"
       \/ /\ requests[r].pc = "await_task"
          /\ coroutines[requests[r].task[1]].pc \in {"log", "except_cancelled"}

\* C31: a cancel call never holds the registry lock while it waits for that
\* lock or for a task that waits for it; every cancel that found a running
\* task can still return.
C31_CancelTerminates ==
    \A r \in DOMAIN requests : ~WaitsForever(r)

\* Once a cancel holds the lock across a suspension, the lock is never
\* released.
C31_HeldLockNeverReleased ==
    [][lock # NULL => lock' = lock]_vars

\* No cancel call that found a running task has returned.
C31_NoCancelReturnsTrue ==
    \A r \in DOMAIN requests :
        requests[r].handler = "stop_strategy_api" => requests[r].reply # Some(200)

\* C32: a strategy id has at most one task that is not done, and every such
\* task is the one registered in task_registry.tasks.
C32_OneLiveTaskPerStrategy ==
    \A sid \in Sids :
        /\ Cardinality(Unfinished(sid)) <= 1
        /\ \A t \in Unfinished(sid) : DictGet(task_registry.tasks, sid) = Some(t)

\* C37: the registry holds no tasks or task_info entry of a task that is
\* done.
C37_FinishedTaskIsCleanedUp ==
    \A sid \in DOMAIN task_registry.tasks \cup DOMAIN task_registry.task_info :
        /\ sid \in DOMAIN task_registry.tasks
        /\ ~done(asyncio_tasks, task_registry.tasks[sid])

\* The last ensure_connection call.
LastCall(calls) == calls[Len(calls)]

\* C33: when an ensure_connection(mode) call returns True, the managed
\* connection is connected to the endpoint of that mode.
C33_TrueMeansConnectedToMode ==
    [][(Len(ensure_calls') > Len(ensure_calls)
            /\ LastCall(ensure_calls').returned = "True") =>
          ib_manager'.ib = Some(Port(LastCall(ensure_calls').mode = "paper"))]_vars

\* What holds: a call that returns True leaves the manager connected to some
\* endpoint, and to the endpoint of its mode when it is the call that
\* connected.
C33_TrueMeansConnected ==
    [][(Len(ensure_calls') > Len(ensure_calls)
            /\ LastCall(ensure_calls').returned = "True") =>
          /\ isConnected(ib_manager')
          /\ ~(ib_manager._connected /\ isConnected(ib_manager)) =>
                 ib_manager'.ib = Some(Port(LastCall(ensure_calls').mode = "paper"))]_vars

C34_NoOverlapWithOnlyRunningRow ==
    [][\A sid \in Sids :
          (Len(deployments') > Len(deployments)
               /\ deployments'[Len(deployments')].strategy_id = sid
               /\ Cardinality(RunningDeployments(sid)) <= 1) =>
              \A d \in RunningDeployments(sid) :
                  deployments[d].accounts \cap deployments'[Len(deployments')].accounts = {}]_vars

====
